---- MODULE Spec2Model ----
(***************************************************************************)
(* Model of the Syleaf mod manager's main process (Electron IPC handlers)   *)
(* over a two-level file system: the mods root holds one directory per     *)
(* character, a character directory holds folder mods (directories) and    *)
(* flat-archive mods (files).                                              *)
(*                                                                         *)
(* File names are sequences of one-character strings, so that the regular  *)
(* expressions and string functions of the handlers (/^DISABLED_/i,        *)
(* toLowerCase, includes, trim, ...) are computed on the characters, not   *)
(* assumed.                                                                *)
(***************************************************************************)
EXTENDS Integers, Sequences, FiniteSets, TLC

VARIABLES
    fsys,    \* the kind of file system below the mods root: "posix" | "darwin" | "win32"
    root,    \* the entries of the mods root directory
    now,     \* the last value returned by Date.now()
    calls,   \* the number of IPC calls handled so far
    last,    \* the last IPC call: its name, arguments, result and the root before it
    settings,       \* settings.json as readSettings returns it: modsRoot (<<>> when unset)
    disk,           \* what the renderer's IPC calls read: the root path in force and its contents
    selectedChar,   \* Principal: the selected character, "" for none
    view,           \* Principal: mods, modImgSrcs, modInternalNames, modPageUrls
    cacheRef,       \* Principal: the per-character cache, in Map insertion order
    latestLoadRef,  \* Principal: the load identifier of the last guarded refresh
    loads           \* Principal: the calls of refreshMods, in the order they started

\* the mods root of settings.json: a path, or <<>> while none was chosen
NotSet == <<>>
RootSet == [modsRoot |-> <<"/", "m">>]
RootUnset == [modsRoot |-> NotSet]

uiVars == <<disk, selectedChar, view, cacheRef, latestLoadRef, loads>>
vars == <<fsys, root, now, calls, last, settings, disk, selectedChar, view, cacheRef, latestLoadRef, loads>>

-----------------------------------------------------------------------------
(* Bounds *)

MaxMods == 2       \* entries of the character directory in an initial state
MaxChars == 3      \* directories of the mods root in an initial state
MaxNow == 1        \* the clock stops being read beyond this value
MaxSuffix == 4     \* the collision counter i of "<name> (i)" is followed up to here
MaxCalls == 2      \* IPC calls in one run
MaxEntries == 3    \* no mod is added to a character directory that holds this many entries

-----------------------------------------------------------------------------
(* Strings *)

UpperChars == <<"A","B","C","D","E","F","G","H","I","J","K","L","M",
                "N","O","P","Q","R","S","T","U","V","W","X","Y","Z">>
LowerChars == <<"a","b","c","d","e","f","g","h","i","j","k","l","m",
                "n","o","p","q","r","s","t","u","v","w","x","y","z">>
OtherChars == {" ", "_", ".", "(", ")", "/", "\\", ":", "0", "1", "2", "3", "4", "5", "6", "7", "8", "9"}
Chars == {UpperChars[i] : i \in 1..26} \cup {LowerChars[i] : i \in 1..26} \cup OtherChars

\* String.prototype.toLowerCase / toUpperCase, one character
lowerOf == [c \in Chars |->
              IF \E i \in 1..26 : UpperChars[i] = c
              THEN LowerChars[CHOOSE i \in 1..26 : UpperChars[i] = c] ELSE c]
upperOf == [c \in Chars |->
              IF \E i \in 1..26 : LowerChars[i] = c
              THEN UpperChars[CHOOSE i \in 1..26 : LowerChars[i] = c] ELSE c]

toLowerCase(s) == [i \in 1..Len(s) |-> lowerOf[s[i]]]
toUpperCase(s) == [i \in 1..Len(s) |-> upperOf[s[i]]]

\* s.slice(k) with a 0-based k
slice(s, k) == SubSeq(s, k + 1, Len(s))

startsWith(s, p) == Len(s) >= Len(p) /\ SubSeq(s, 1, Len(p)) = p
endsWith(s, p) == Len(s) >= Len(p) /\ SubSeq(s, Len(s) - Len(p) + 1, Len(s)) = p

\* String.prototype.includes
includes(s, sub) ==
    \E i \in 1..(Len(s) - Len(sub) + 1) : SubSeq(s, i, i + Len(sub) - 1) = sub

\* String.prototype.trim (the only white space of the model is " ")
RECURSIVE trimStart(_)
trimStart(s) == IF s # <<>> /\ Head(s) = " " THEN trimStart(Tail(s)) ELSE s
RECURSIVE trimEnd(_)
trimEnd(s) == IF s # <<>> /\ s[Len(s)] = " " THEN trimEnd(SubSeq(s, 1, Len(s) - 1)) ELSE s
trim(s) == trimEnd(trimStart(s))

DISABLED == <<"D","I","S","A","B","L","E","D","_">>
ZIP == <<".","z","i","p">>
SEVENZ == <<".","7","z">>
RAR == <<".","r","a","r">>
TMP == <<"_","_","t","m","p","_","_">>

\* /^DISABLED_/i.test(s)
hasDisabledPrefix(s) == startsWith(toLowerCase(s), toLowerCase(DISABLED))
\* s.replace(/^DISABLED_/i, '')
stripDisabled(s) == IF hasDisabledPrefix(s) THEN slice(s, Len(DISABLED)) ELSE s

\* /\.(zip|7z|rar)$/i.test(s)
archiveExtLen(s) ==
    IF endsWith(toLowerCase(s), ZIP) THEN 4
    ELSE IF endsWith(toLowerCase(s), RAR) THEN 4
    ELSE IF endsWith(toLowerCase(s), SEVENZ) THEN 3
    ELSE 0
hasArchiveExt(s) == archiveExtLen(s) > 0
\* s.replace(/\.(zip|7z|rar)$/i, '')
stripArchiveExt(s) == SubSeq(s, 1, Len(s) - archiveExtLen(s))

Digit == <<"0", "1", "2", "3", "4", "5", "6", "7", "8", "9">>
\* the decimal text of a number below 10
numText(n) == <<Digit[n + 1]>>
\* `${base} (${i})`
withSuffix(base, i) == base \o <<" ", "(">> \o numText(i) \o <<")">>

-----------------------------------------------------------------------------
(* The file system *)

\* NTFS and the default APFS/HFS+ look names up without regard to case
CaseInsensitive == fsys \in {"darwin", "win32"}
\* rename(2) replaces an empty destination directory; MoveFileEx never replaces a directory
ReplacesEmptyDir == fsys \in {"posix", "darwin"}

Fold(name) == IF CaseInsensitive THEN toLowerCase(name) ELSE name

\* the entries of directory d that the path <d>/<name> resolves to (none or one)
Lookup(d, name) == {e \in d : Fold(e.name) = Fold(name)}
exists(d, name) == Lookup(d, name) # {}
isDirectoryIn(d, name) == \E e \in Lookup(d, name) : e.kind = "dir"
isFileIn(d, name) == \E e \in Lookup(d, name) : e.kind = "file"
readdir(d) == {e.name : e \in d}

NoJson == [present |-> FALSE, enabled |-> TRUE]
\* the file data.txt or data of a mod: absent, not JSON of an object, or the
\* JSON of an object with its pageUrl and imageUrl ("undefined": no such key)
NoData == [kind |-> "absent", pageUrl |-> "undefined", imageUrl |-> "undefined"]
Garbage == [kind |-> "garbage", pageUrl |-> "undefined", imageUrl |-> "undefined"]
\* a directory under the name of a data file: readFile and unlink fail on it
DataDir == [kind |-> "dir", pageUrl |-> "undefined", imageUrl |-> "undefined"]
NoFiles == [txt |-> NoData, legacy |-> NoData]
\* a mod entry of a character directory: a flat archive or a mod folder, with
\* its data files and whether it holds a preview image
ModFile(n) ==
    [name |-> n, kind |-> "file", json |-> NoJson, inner |-> {},
     data |-> NoFiles, image |-> FALSE]
ModFolder(n, j, in) ==
    [name |-> n, kind |-> "dir", json |-> j, inner |-> in,
     data |-> NoFiles, image |-> FALSE]
\* an entry of the mods root
RootFile(n) == [name |-> n, kind |-> "file", entries |-> {}]
RootDir(n, es) == [name |-> n, kind |-> "dir", entries |-> es]

\* a directory without entries: a character directory without mods, a mod
\* folder without archives and without mod.json
isEmptyDir(e) ==
    IF "entries" \in DOMAIN e THEN e.entries = {}
    ELSE e.inner = {} /\ ~e.json.present /\ e.data = NoFiles /\ ~e.image

Ok(d) == [d |-> d, err |-> "none"]
Fail(d, code) == [d |-> d, err |-> code]

\* fsp.rename(<d>/<from>, <d>/<to>)
fsRename(d, from, to) ==
    IF ~exists(d, from) THEN Fail(d, "ENOENT")
    ELSE LET src == CHOOSE e \in Lookup(d, from) : TRUE
             moved == [src EXCEPT !.name = to]
         IN  IF ~exists(d, to) \/ Lookup(d, to) = {src}
             THEN Ok((d \ {src}) \cup {moved})
             ELSE LET dst == CHOOSE e \in Lookup(d, to) : TRUE
                  IN  IF src.kind = "file" /\ dst.kind = "file"
                      THEN Ok((d \ {src, dst}) \cup {moved})
                      ELSE IF src.kind = "file" THEN Fail(d, "EISDIR")
                      ELSE IF dst.kind = "file" THEN Fail(d, "ENOTDIR")
                      ELSE IF ~ReplacesEmptyDir THEN Fail(d, "EPERM")
                      ELSE IF isEmptyDir(dst) THEN Ok((d \ {src, dst}) \cup {moved})
                      ELSE Fail(d, "ENOTEMPTY")

\* try { await fsp.rm(<d>/<name>, { force: true }) } catch {}
\* (without recursive a directory is refused; the refusal is swallowed)
fsRmForce(d, name) == {e \in d : ~(e \in Lookup(d, name) /\ e.kind = "file")}
\* fsp.rm(<d>/<name>, { recursive: true, force: true })
fsRmRecursive(d, name) == d \ Lookup(d, name)
\* try { await fsp.unlink(<d>/<name>) } catch {}
fsUnlink(d, name) == fsRmForce(d, name)

-----------------------------------------------------------------------------
(* mod.json *)

\* readModMeta: the parsed mod.json, or { name: <folder name>, enabled: true };
\* of the record only the enabled key is modelled
readModMeta(e) ==
    IF e.json.present THEN e.json ELSE [present |-> TRUE, enabled |-> TRUE]

\* writeModMeta(<d>/<dirName>, { name, enabled? }) inside try/catch: the
\* record is merged over the existing one; enabled is "true", "false" or
\* "absent" (the key is not in the argument)
writeModMeta(d, dirName, metaEnabled) ==
    IF ~isDirectoryIn(d, dirName) THEN d
    ELSE LET e == CHOOSE x \in Lookup(d, dirName) : TRUE
             existing == readModMeta(e)
             merged == [present |-> TRUE,
                        enabled |-> IF metaEnabled = "absent" THEN existing.enabled
                                    ELSE metaEnabled = "true"]
         IN  (d \ {e}) \cup {[e EXCEPT !.json = merged]}

-----------------------------------------------------------------------------------------------------------------------------------------------------
(* mods:list *)

\* the spread written the other way round, { enabled, ...meta }: the flag of
\* mod.json wins
listMetaStored(meta, enabled) == [enabled |-> meta.enabled]

\* meta: { ...meta, image: img, enabled } -- the flag derived from the folder
\* name is spread last, over the one read from mod.json
listMeta(meta, enabled) == [enabled |-> enabled]

modsListFolders(d) ==
    {[folder |-> e.name,
      meta |-> listMeta(readModMeta(e), ~hasDisabledPrefix(e.name)),
      archive |-> <<>>,
      flat |-> FALSE] : e \in {x \in d : x.kind = "dir"}}

modsListSeen(d) ==
    {toLowerCase(stripDisabled(e.name)) : e \in {x \in d : x.kind = "dir"}}

modsListFlat(d) ==
    {[folder |-> stripArchiveExt(stripDisabled(e.name)),
      meta |-> [enabled |-> ~hasDisabledPrefix(e.name)],
      archive |-> e.name,
      flat |-> TRUE] :
        e \in {x \in d : /\ x.kind = "file"
                         /\ hasArchiveExt(x.name)
                         /\ toLowerCase(stripArchiveExt(stripDisabled(x.name)))
                               \notin modsListSeen(d)}}

\* the entries mods:list returns for the character directory d
modsList(d) == modsListFolders(d) \cup modsListFlat(d)

\* m.dir of an entry of mods:list, from the character directory on: mdir for a
\* folder mod, cdir itself for a flat mod
modDirOf(m) == IF m.flat THEN <<>> ELSE <<"/">> \o m.folder

\* the key of a mod in the maps of the view: m.dir + '::' + m.folder
modKey(m) == modDirOf(m) \o <<":", ":">> \o m.folder

-----------------------------------------------------------------------------
(* Handlers on one character directory d.  A handler yields the set of its    *)
(* possible outcomes (several when the order of readdir decides); the empty   *)
(* set means the call needs a collision counter beyond MaxSuffix.             *)

Return(d, v) == [d |-> d, ret |-> v, err |-> "none"]
Throw(d, msg) == [d |-> d, ret |-> "none", err |-> msg]

\* let i = 2; while (isDirectory(target)) target = `${base} (${i++})`
suffixesFree(d, base) == {i \in 2..MaxSuffix : ~isDirectoryIn(d, withSuffix(base, i))}
firstFreeDir(d, base) ==
    IF ~isDirectoryIn(d, base) THEN {base}
    ELSE IF suffixesFree(d, base) = {} THEN {}
    ELSE {withSuffix(base, CHOOSE i \in suffixesFree(d, base) :
                               \A j \in suffixesFree(d, base) : i <= j)}

\* rename a located entry and report as the handler does
renameOutcome(d, from, to) ==
    LET r == fsRename(d, from, to)
    IN  IF r.err = "none" THEN Return(r.d, "true") ELSE Throw(r.d, r.err)

\* the realDir of mods:enable / mods:disable (<<>> stands for null)
realDirOf(d, rawName) ==
    IF isDirectoryIn(d, rawName) THEN rawName
    ELSE IF isDirectoryIn(d, DISABLED \o rawName) THEN DISABLED \o rawName
    ELSE <<>>

\* files.find(exact) || files.find(includes), over DISABLED_ names: any
\* match can be the first one of the listing
findDisabledArchive(d, key) ==
    LET exact == {f \in readdir(d) :
                    /\ hasDisabledPrefix(f)
                    /\ toLowerCase(stripArchiveExt(stripDisabled(f))) = toLowerCase(key)}
        loose == {f \in readdir(d) :
                    hasDisabledPrefix(f) /\ includes(toLowerCase(f), toLowerCase(key))}
    IN  IF exact # {} THEN exact ELSE loose

findEnabledArchive(d, key) ==
    LET exact == {f \in readdir(d) :
                    /\ ~hasDisabledPrefix(f)
                    /\ toLowerCase(stripArchiveExt(f)) = toLowerCase(key)}
        loose == {f \in readdir(d) :
                    ~hasDisabledPrefix(f) /\ includes(toLowerCase(f), toLowerCase(key))}
    IN  IF exact # {} THEN exact ELSE loose

\* the destination computed with the extension stripped as well, as the
\* lookup key is
modsEnableFlatNoExt(d, modName) ==
    IF findDisabledArchive(d, modName) = {} THEN {Return(d, "false")}
    ELSE {renameOutcome(fsRmForce(d, stripArchiveExt(stripDisabled(f))),
                        f, stripArchiveExt(stripDisabled(f))) :
            f \in findDisabledArchive(d, modName)}

\* mods:enableFlat, and the flat fallback of mods:enable
modsEnableFlat(d, modName) ==
    IF findDisabledArchive(d, modName) = {} THEN {Return(d, "false")}
    ELSE {renameOutcome(fsRmForce(d, stripDisabled(f)), f, stripDisabled(f)) :
            f \in findDisabledArchive(d, modName)}

\* mods:disableFlat, and the flat fallback of mods:disable
modsDisableFlat(d, modName) ==
    IF findEnabledArchive(d, modName) = {} THEN {Return(d, "false")}
    ELSE {renameOutcome(fsRmForce(d, DISABLED \o f), f, DISABLED \o f) :
            f \in findEnabledArchive(d, modName)}

modsEnable(d, modName) ==
    LET rawName == stripDisabled(modName)
        realDir == realDirOf(d, rawName)
    IN  IF realDir # <<>>
        THEN IF hasDisabledPrefix(realDir)
             THEN {LET r == fsRename(d, realDir, target)
                   IN  IF r.err # "none" THEN Throw(r.d, r.err)
                       ELSE Return(writeModMeta(r.d, target, "true"), "true") :
                     target \in firstFreeDir(d, stripDisabled(realDir))}
             ELSE {Return(writeModMeta(d, realDir, "true"), "true")}
        ELSE modsEnableFlat(d, rawName)

modsDisable(d, modName) ==
    LET rawName == stripDisabled(modName)
        realDir == realDirOf(d, rawName)
    IN  IF realDir # <<>>
        THEN IF ~hasDisabledPrefix(realDir)
             THEN {LET r == fsRename(d, realDir, target)
                   IN  IF r.err # "none" THEN Throw(r.d, r.err)
                       ELSE Return(writeModMeta(r.d, target, "false"), "true") :
                     target \in firstFreeDir(d, DISABLED \o realDir)}
             ELSE {Return(writeModMeta(d, realDir, "false"), "true")}
        ELSE modsDisableFlat(d, rawName)

\* the orders in which readdir can list the names of S
Orders(S) == {q \in [1..Cardinality(S) -> S] : \A i, j \in 1..Cardinality(S) : q[i] = q[j] => i = j}

\* the inner loop of mods:activateExclusive over the archives of one mod
\* folder: in is the set of file names of the folder, q the archives still to
\* visit.  Yields the names afterwards, and whether a rename threw.
RECURSIVE activateFiles(_, _, _)
activateFiles(in, q, isTarget) ==
    IF q = <<>> THEN [in |-> in, threw |-> FALSE]
    ELSE LET file == Head(q)
             isDisabled == hasDisabledPrefix(file)
             to == IF isTarget THEN stripDisabled(file) ELSE DISABLED \o file
         IN  IF isTarget = isDisabled
             THEN \* try { rm(to, { force: true }) } catch {} ; rename(from, to)
                  IF \E n \in in : Fold(n) = Fold(file)
                  THEN activateFiles({n \in in : Fold(n) # Fold(to) /\ Fold(n) # Fold(file)}
                                        \cup {to},
                                     Tail(q), isTarget)
                  ELSE [in |-> {n \in in : Fold(n) # Fold(to)}, threw |-> TRUE]
             ELSE activateFiles(in, Tail(q), isTarget)

\* one iteration of the outer loop: the mod folder e afterwards, for each
\* listing order of its files; mod.json is written unless the loop threw
activateFolder(e, targetMod) ==
    {LET r == activateFiles(e.inner, q, e.name = targetMod)
     IN  IF r.threw THEN [e EXCEPT !.inner = r.in]
         ELSE [e EXCEPT !.inner = r.in,
                        !.json = [present |-> TRUE, enabled |-> (e.name = targetMod)]] :
       q \in Orders({n \in e.inner : hasArchiveExt(n)})}

\* mods:activateExclusive: every directory of d is visited, files are skipped
modsActivateExclusive(d, targetMod) ==
    LET dirs == {e \in d : e.kind = "dir"}
        after == UNION {activateFolder(e, targetMod) : e \in dirs}
        picks == {f \in [dirs -> after] : \A e \in dirs : f[e] \in activateFolder(e, targetMod)}
    IN  {Return((d \ dirs) \cup {f[e] : e \in dirs}, "true") : f \in picks}

\* ensureDirSync / fsp.mkdir(<d>/<name>, { recursive: true })
fsMkdir(d, name) ==
    IF isDirectoryIn(d, name) THEN Ok(d)
    ELSE IF exists(d, name) THEN Fail(d, "EEXIST")
    ELSE Ok(d \cup {ModFolder(name, NoJson, {})})

\* extractArchive(archivePath, <d>/<name>): the files of the archive are
\* written into the folder
extractInto(d, name, content) ==
    LET e == CHOOSE x \in Lookup(d, name) : TRUE
    IN  (d \ {e}) \cup {[e EXCEPT !.inner = {n \in e.inner : \A c \in content : Fold(c) # Fold(n)}
                                              \cup content]}

\* mods:addFromArchive(character, archivePath, modName, meta)
modsAddFromArchive(d, modName, metaEnabled, content) ==
    LET m == fsMkdir(d, modName)
    IN  IF m.err # "none" THEN {Throw(d, m.err)}
        ELSE {Return(writeModMeta(extractInto(m.d, modName, content),
                                  modName, metaEnabled), "true")}

ArchiveExts == {ZIP, SEVENZ, RAR}
\* the collision test of mods:copyArchiveToModFolder
copyCollides(d, modName) ==
    \/ \E ext \in ArchiveExts :
          exists(d, modName \o ext) \/ exists(d, DISABLED \o modName \o ext)
    \/ exists(d, modName)

copyModName(d, base) ==
    IF ~copyCollides(d, base) THEN {base}
    ELSE LET free == {i \in 2..MaxSuffix : ~copyCollides(d, withSuffix(base, i))}
         IN  IF free = {} THEN {}
             ELSE {withSuffix(base, CHOOSE i \in free : \A j \in free : i <= j)}

\* mods:copyArchiveToModFolder(character, archivePath): base is the archive
\* file name without its extension, content the archive files that end up at
\* the top of the new folder
modsCopyArchiveToModFolder(d, base, content) ==
    {Return(writeModMeta(extractInto(fsMkdir(d, modName).d, modName, content),
                         modName, "true"), "object") :
       modName \in copyModName(d, base)}

PreviewExts == <<<<".","p","n","g">>, <<".","j","p","g">>, <<".","j","p","e","g">>,
                 <<".","w","e","b","p">>, <<".","g","i","f">>>>
previewName(modName, k) == modName \o <<".","p","r","e","v","i","e","w">> \o PreviewExts[k]

\* mods:delete(character, modName)
modsDelete(d, modName) ==
    IF isDirectoryIn(d, modName) THEN {Return(fsRmRecursive(d, modName), "true")}
    ELSE LET archs == {f \in readdir(d) :
                         toLowerCase(stripArchiveExt(stripDisabled(f))) = toLowerCase(modName)}
             found == {k \in 1..5 : exists(d, previewName(modName, k))}
             rmPreview(dd) ==
                 IF found = {} THEN dd
                 ELSE fsUnlink(dd, previewName(modName,
                                   CHOOSE k \in found : \A j \in found : k <= j))
         IN  IF archs = {} THEN {Return(rmPreview(d), "true")}
             ELSE {Return(rmPreview(fsUnlink(d, f)), "true") : f \in archs}

-----------------------------------------------------------------------------
(* Handlers on the mods root r *)

ReturnR(r, v) == [root |-> r, ret |-> v, err |-> "none", changed |-> <<>>, skipped |-> <<>>]
ThrowR(r, msg) == [root |-> r, ret |-> "none", err |-> msg, changed |-> <<>>, skipped |-> <<>>]

\* the entries of characterDir(modsRoot, character)
charEntries(r, character) ==
    (CHOOSE e \in Lookup(r, character) : TRUE).entries

\* the outcomes of a handler on the character directory, seen from the root
Lift(r, character, outs) ==
    LET c == CHOOSE e \in Lookup(r, character) : TRUE
    IN  {[root |-> (r \ {c}) \cup {[c EXCEPT !.entries = o.d]},
          ret |-> o.ret, err |-> o.err, changed |-> <<>>, skipped |-> <<>>] : o \in outs}

\* ipcMain.handle('mods:list'): [] when the directory cannot be read
modsListH(r, character) ==
    IF isDirectoryIn(r, character) THEN modsList(charEntries(r, character)) ELSE {}

modsEnableH(r, character, modName) ==
    IF trim(character) = <<>> \/ trim(modName) = <<>>
    THEN {ThrowR(r, "Character and modName are required")}
    ELSE IF ~isDirectoryIn(r, character) THEN {ThrowR(r, "ENOENT")}
    ELSE Lift(r, character, modsEnable(charEntries(r, character), modName))

modsDisableH(r, character, modName) ==
    IF trim(character) = <<>> \/ trim(modName) = <<>>
    THEN {ThrowR(r, "Character and modName are required")}
    ELSE IF ~isDirectoryIn(r, character) THEN {ThrowR(r, "ENOENT")}
    ELSE Lift(r, character, modsDisable(charEntries(r, character), modName))

modsEnableFlatH(r, character, modName) ==
    IF ~isDirectoryIn(r, character) THEN {ThrowR(r, "ENOENT")}
    ELSE Lift(r, character, modsEnableFlat(charEntries(r, character), modName))

modsDisableFlatH(r, character, modName) ==
    IF ~isDirectoryIn(r, character) THEN {ThrowR(r, "ENOENT")}
    ELSE Lift(r, character, modsDisableFlat(charEntries(r, character), modName))

modsActivateExclusiveH(r, character, targetMod) ==
    IF trim(character) = <<>> \/ trim(targetMod) = <<>>
    THEN {ThrowR(r, "Character and target mod are required")}
    ELSE IF ~isDirectoryIn(r, character) THEN {ThrowR(r, "ENOENT")}
    ELSE Lift(r, character, modsActivateExclusive(charEntries(r, character), targetMod))

\* fsp.mkdir(characterDir(modsRoot, name), { recursive: true })
mkdirChar(r, name) ==
    IF isDirectoryIn(r, name) THEN Ok(r)
    ELSE IF exists(r, name) THEN Fail(r, "EEXIST")
    ELSE Ok(r \cup {RootDir(name, {})})

modsAddFromArchiveH(r, character, modName, metaEnabled, content) ==
    LET m == mkdirChar(r, character)
    IN  IF m.err # "none" THEN {ThrowR(r, m.err)}
        ELSE Lift(m.d, character,
                  modsAddFromArchive(charEntries(m.d, character), modName, metaEnabled, content))

modsCopyArchiveToModFolderH(r, character, base, content) ==
    LET m == mkdirChar(r, character)
    IN  IF trim(character) = <<>> THEN {ThrowR(r, "Character required")}
        ELSE IF m.err # "none" THEN {ThrowR(r, m.err)}
        ELSE Lift(m.d, character,
                  modsCopyArchiveToModFolder(charEntries(m.d, character), base, content))

modsDeleteH(r, character, modName) ==
    IF ~isDirectoryIn(r, character) THEN {ReturnR(r, "true")}
    ELSE Lift(r, character, modsDelete(charEntries(r, character), modName))

\* ipcMain.handle('characters:add')
charactersAdd(r, name) ==
    LET m == mkdirChar(r, name)
    IN  IF m.err # "none" THEN ThrowR(r, m.err) ELSE ReturnR(m.d, "name")

\* ipcMain.handle('characters:delete')
charactersDelete(r, name) ==
    IF trim(name) = <<>> THEN ThrowR(r, "Character name required")
    ELSE ReturnR(fsRmRecursive(r, name), "true")

\* `${name}__tmp__${Date.now()}`
tempName(name, t) == name \o TMP \o numText(t)

\* the first rename alone: the directory stays under the temporary name
renameViaTempHalf(r, from, temp, to) == fsRename(r, from, temp)

\* the two renames of the case-only branch: from -> temp -> to
renameViaTemp(r, from, temp, to) ==
    LET r1 == fsRename(r, from, temp)
    IN  IF r1.err # "none" THEN r1 ELSE fsRename(r1.d, temp, to)

\* try { await fsp.access(to); throw new Error('Target already exists') } catch {}
\* the catch clause also catches the error thrown inside the try block
accessGuard(r, to) ==
    IF exists(r, to) THEN "none"    \* 'Target already exists' is thrown and caught
    ELSE "none"                     \* access rejects, which is caught

\* the source of characters:rename: the directory of the character, or its
\* DISABLED_ variant when only that one exists
renameUsesAlt(r, oldName) ==
    ~isDirectoryIn(r, oldName) /\ isDirectoryIn(r, DISABLED \o oldName)
renameFrom(r, oldName) ==
    IF renameUsesAlt(r, oldName) THEN DISABLED \o oldName ELSE oldName
\* the destination as characters:rename of electron/main.ts computes it
renameToPlain(r, oldName, newName) == newName

\* the destination of characters:rename keeps the prefix of the source
renameTo(r, oldName, newName) ==
    IF renameUsesAlt(r, oldName) THEN DISABLED \o newName ELSE newName

\* const caseOnly = oldName.toLowerCase() === newName.toLowerCase()
caseOnly(oldName, newName) == toLowerCase(oldName) = toLowerCase(newName)

\* ipcMain.handle('characters:rename'): t is the value of Date.now()
charactersRename(r, oldName, newName, t) ==
    LET from == renameFrom(r, oldName)
        to == renameTo(r, oldName, newName)
    IN  IF ~isDirectoryIn(r, from) THEN ThrowR(r, "Source character does not exist")
        ELSE IF from = to THEN ReturnR(r, "unchanged")
        ELSE IF caseOnly(oldName, newName)
        THEN LET m == renameViaTemp(r, from, tempName(oldName, t), to)
             IN  IF m.err # "none" THEN ThrowR(m.d, m.err) ELSE ReturnR(m.d, "changed")
        ELSE IF accessGuard(r, to) # "none" THEN ThrowR(r, accessGuard(r, to))
        ELSE LET m == fsRename(r, from, to)
             IN  IF m.err # "none" THEN ThrowR(m.d, m.err) ELSE ReturnR(m.d, "changed")

\* normalize(n) of characters:normalizeNames
normalize(n) ==
    IF trim(n) = <<>> THEN n
    ELSE <<upperOf[Head(trim(n))]>> \o toLowerCase(Tail(trim(n)))

\* the loop with a collision passed over in silence (continue without push)
RECURSIVE normalizeLoopSilent(_, _, _, _, _)
normalizeLoopSilent(r, q, t, changed, skipped) ==
    IF q = <<>> THEN [root |-> r, ret |-> "report", err |-> "none",
                      changed |-> changed, skipped |-> skipped]
    ELSE LET name == Head(q)
             targetName == normalize(name)
             sameCaseOnly == toLowerCase(name) = toLowerCase(targetName)
             m == IF sameCaseOnly
                  THEN renameViaTemp(r, name, tempName(name, t), targetName)
                  ELSE fsRename(r, name, targetName)
         IN  IF ~isDirectoryIn(r, name) \/ targetName = name
             THEN normalizeLoopSilent(r, Tail(q), t, changed, skipped)
             ELSE IF ~sameCaseOnly /\ exists(r, targetName)
             THEN normalizeLoopSilent(r, Tail(q), t, changed, skipped)
             ELSE IF m.err # "none"
             THEN normalizeLoopSilent(m.d, Tail(q), t, changed, Append(skipped, name))
             ELSE normalizeLoopSilent(m.d, Tail(q), t,
                                      Append(changed, <<name, targetName>>), skipped)

\* the loop with a failed rename rethrown instead of caught
RECURSIVE normalizeLoopThrows(_, _, _, _, _)
normalizeLoopThrows(r, q, t, changed, skipped) ==
    IF q = <<>> THEN [root |-> r, ret |-> "report", err |-> "none",
                      changed |-> changed, skipped |-> skipped]
    ELSE LET name == Head(q)
             targetName == normalize(name)
             sameCaseOnly == toLowerCase(name) = toLowerCase(targetName)
             m == IF sameCaseOnly
                  THEN renameViaTemp(r, name, tempName(name, t), targetName)
                  ELSE fsRename(r, name, targetName)
         IN  IF ~isDirectoryIn(r, name) \/ targetName = name
             THEN normalizeLoopThrows(r, Tail(q), t, changed, skipped)
             ELSE IF ~sameCaseOnly /\ exists(r, targetName)
             THEN normalizeLoopThrows(r, Tail(q), t, changed, Append(skipped, name))
             ELSE IF m.err # "none"
             THEN [root |-> m.d, ret |-> "none", err |-> m.err,
                   changed |-> changed, skipped |-> skipped]
             ELSE normalizeLoopThrows(m.d, Tail(q), t,
                                      Append(changed, <<name, targetName>>), skipped)

\* the loop of characters:normalizeNames over the listing q that is left
RECURSIVE normalizeLoop(_, _, _, _, _)
normalizeLoop(r, q, t, changed, skipped) ==
    IF q = <<>> THEN [root |-> r, ret |-> "report", err |-> "none",
                      changed |-> changed, skipped |-> skipped]
    ELSE LET name == Head(q)
             targetName == normalize(name)
             sameCaseOnly == toLowerCase(name) = toLowerCase(targetName)
             m == IF sameCaseOnly
                  THEN renameViaTemp(r, name, tempName(name, t), targetName)
                  ELSE fsRename(r, name, targetName)
         IN  IF ~isDirectoryIn(r, name) \/ targetName = name
             THEN normalizeLoop(r, Tail(q), t, changed, skipped)
             ELSE IF ~sameCaseOnly /\ exists(r, targetName)
             THEN normalizeLoop(r, Tail(q), t, changed, Append(skipped, name))
             ELSE IF m.err # "none"
             THEN normalizeLoop(m.d, Tail(q), t, changed, Append(skipped, name))
             ELSE normalizeLoop(m.d, Tail(q), t, Append(changed, <<name, targetName>>), skipped)

\* ipcMain.handle('characters:normalizeNames'), one outcome per listing order
charactersNormalizeNames(r, t) ==
    {normalizeLoop(r, q, t, <<>>, <<>>) : q \in Orders(readdir(r))}

-----------------------------------------------------------------------------
(* The listing of an archive: getPrimaryInternalNameFromArchive *)

SLASH == <<"/">>
BACKSLASH == <<"\\">>
DATA == <<"d", "a", "t", "a">>
DATA_TXT == <<"d", "a", "t", "a", ".", "t", "x", "t">>
PREVIEW_DOT == <<"p", "r", "e", "v", "i", "e", "w", ".">>

\* one block of the output of 7z l -slt: the Path line, and the Folder and
\* Attributes lines when the format prints them
SltEntry(p, folder, attributes) == [path |-> p, folder |-> folder, attributes |-> attributes]

\* cur.folderFlag after the lines of the block: Folder = + (or yes, 1) sets
\* it, an Attributes value with a D at a word boundary sets it
folderFlag(e) == e.folder = "+" \/ e.attributes = "D"

\* the output of 7z l -slt <archivePath>: the block of the archive itself
\* (Path = <archivePath>), then one block per entry
sevenList(archivePath, entries) == <<SltEntry(archivePath, "absent", "absent")>> \o entries

\* p.slice(0, idx) at the first / or \ of p; p itself without a separator
splitFirst(p) ==
    LET idxs == {i \in 1..Len(p) : <<p[i]>> \in {SLASH, BACKSLASH}}
    IN  IF idxs = {} THEN p
        ELSE SubSeq(p, 1, (CHOOSE i \in idxs : \A j \in idxs : i <= j) - 1)

\* the entries the loop does not skip
countedEntry(e) ==
    /\ e.path # <<>>
    /\ ~includes(e.path, <<":">>)
    /\ e.path \notin {<<".">>, <<".", "/">>}
    /\ splitFirst(e.path) # <<>>
    /\ toLowerCase(splitFirst(e.path)) \notin {DATA, DATA_TXT}
    /\ ~startsWith(toLowerCase(splitFirst(e.path)), PREVIEW_DOT)

\* seen: the top-level names of the counted entries, in first-seen order
RECURSIVE seenTops(_, _)
seenTops(entries, seen) ==
    IF entries = <<>> THEN seen
    ELSE LET e == Head(entries)
             top == splitFirst(e.path)
         IN  IF countedEntry(e) /\ \A i \in 1..Len(seen) : seen[i] # top
             THEN seenTops(Tail(entries), Append(seen, top))
             ELSE seenTops(Tail(entries), seen)

\* allPaths.some(ap => ap !== top && (ap.startsWith(top + '/') || ap.startsWith(top + '\\')))
hasChildren(entries, top) ==
    \E i \in 1..Len(entries) :
       /\ entries[i].path # top
       /\ \/ startsWith(entries[i].path, top \o SLASH)
          \/ startsWith(entries[i].path, top \o BACKSLASH)

\* keys every object literal inherits: top in isDirMap is true for them, so
\* isDirMap[top] is never set to false and reads as the inherited function
ObjectPrototypeKeys ==
    {<<"c","o","n","s","t","r","u","c","t","o","r">>,
     <<"t","o","S","t","r","i","n","g">>,
     <<"v","a","l","u","e","O","f">>}

\* isDirMap[top] is truthy
isDirMap(entries, top) ==
    \/ top \in ObjectPrototypeKeys
    \/ \E i \in 1..Len(entries) :
          /\ countedEntry(entries[i])
          /\ splitFirst(entries[i].path) = top
          /\ (folderFlag(entries[i]) \/ hasChildren(entries, top))

\* the primary internal name read from the listing (<<>> stands for null)
getPrimaryInternalNameFromArchive(listing) ==
    LET seen == seenTops(listing, <<>>)
        dirs == {i \in 1..Len(seen) : isDirMap(listing, seen[i])}
    IN  IF seen = <<>> THEN <<>>
        ELSE IF dirs # {} THEN seen[CHOOSE i \in dirs : \A j \in dirs : i <= j]
        ELSE seen[1]

-----------------------------------------------------------------------------
(* Embedded metadata, previews and internal names of one mod.  An outcome     *)
(* also tells what the handler returned (data, name) and whether it spawned   *)
(* 7-Zip.                                                                     *)

Null == [kind |-> "null", pageUrl |-> "undefined", imageUrl |-> "undefined"]
MOD_JSON == <<"m", "o", "d", ".", "j", "s", "o", "n">>
PREVIEW_PNG == <<"p", "r", "e", "v", "i", "e", "w", ".", "p", "n", "g">>

DataOut(d, ret, err, data, name, spawned) ==
    [d |-> d, ret |-> ret, err |-> err, data |-> data, name |-> name, spawned |-> spawned]

\* x || undefined
orUndefined(x) == IF x \in {"", "undefined"} THEN "undefined" ELSE x

\* JSON.stringify({ pageUrl: payload.pageUrl || undefined, imageUrl: ... })
stringifyData(payload) ==
    [kind |-> "json", pageUrl |-> orUndefined(payload.pageUrl),
     imageUrl |-> orUndefined(payload.imageUrl)]

\* fs.existsSync(dataTxt) ? dataTxt : (fs.existsSync(dataLegacy) ? dataLegacy : null)
chosenData(files) == IF files.txt.kind # "absent" THEN files.txt ELSE files.legacy

\* JSON.parse(raw) and { pageUrl: j.pageUrl || undefined, imageUrl: ... } when
\* the text parses to an object, null otherwise
parseData(file) ==
    IF file.kind = "json"
    THEN [kind |-> "data", pageUrl |-> orUndefined(file.pageUrl),
          imageUrl |-> orUndefined(file.imageUrl)]
    ELSE Null

\* path.extname(f): from the last dot on, empty without a dot or with the
\* only dot in front
extname(f) ==
    LET dots == {i \in 2..Len(f) : f[i] = "."}
    IN  IF dots = {} THEN <<>>
        ELSE SubSeq(f, CHOOSE i \in dots : \A j \in dots : j <= i, Len(f))

\* /(zip|7z|rar)$/i.test(path.extname(f))
hasArchiveExtname(f) ==
    \E x \in {<<"z","i","p">>, <<"7","z">>, <<"r","a","r">>} :
       endsWith(toLowerCase(extname(f)), x)

\* files.find(exact) || files.find(includes) over the names that end like an
\* archive by extname: any match can be the first one of the listing
findArchiveByExtname(d, modName) ==
    LET exact == {f \in readdir(d) :
                    /\ hasArchiveExtname(f)
                    /\ toLowerCase(stripArchiveExt(stripDisabled(f))) = toLowerCase(modName)}
        loose == {f \in readdir(d) :
                    hasArchiveExtname(f) /\ includes(toLowerCase(f), toLowerCase(modName))}
    IN  IF exact # {} THEN exact ELSE loose

\* the same lookup with /\.(zip|7z|rar)$/i.test(f) (mods:getPreviewDataUrl)
findArchive(d, modName) ==
    LET exact == {f \in readdir(d) :
                    /\ hasArchiveExt(f)
                    /\ toLowerCase(stripArchiveExt(stripDisabled(f))) = toLowerCase(modName)}
        loose == {f \in readdir(d) :
                    hasArchiveExt(f) /\ includes(toLowerCase(f), toLowerCase(modName))}
    IN  IF exact # {} THEN exact ELSE loose

entryOf(d, name) == CHOOSE e \in d : e.name = name

\* 7-Zip packs and updates zip and 7z archives; rar is unpacked only
sevenCanUpdate(archive) == ~endsWith(toLowerCase(archive), RAR)

\* the blocks 7z l -slt prints for the entries of a flat archive: its data
\* files, its preview and its top-level folder (inner holds at most one)
listingOf(e) ==
    (IF e.data.txt.kind # "absent" THEN <<SltEntry(DATA_TXT, "-", "A")>> ELSE <<>>)
    \o (IF e.data.legacy.kind # "absent" THEN <<SltEntry(DATA, "-", "A")>> ELSE <<>>)
    \o (IF e.image THEN <<SltEntry(PREVIEW_PNG, "-", "A")>> ELSE <<>>)
    \o (IF e.inner # {} THEN <<SltEntry(CHOOSE n \in e.inner : TRUE, "+", "D")>> ELSE <<>>)

\* ipcMain.handle('mods:getData') on the character directory d
modsGetData(d, modName) ==
    LET inFolder == IF isDirectoryIn(d, modName)
                    THEN parseData(chosenData((CHOOSE e \in Lookup(d, modName) : TRUE).data))
                    ELSE Null
        targets == findArchiveByExtname(d, modName)
    IN  IF inFolder.kind = "data" THEN {DataOut(d, "data", "none", inFolder, <<>>, FALSE)}
        ELSE IF targets = {} THEN {DataOut(d, "null", "none", Null, <<>>, FALSE)}
        ELSE {LET json == parseData(chosenData(entryOf(d, t).data))
              IN  DataOut(d, IF json.kind = "data" THEN "data" ELSE "null", "none",
                          json, <<>>, TRUE) : t \in targets}

\* try { await fsp.unlink(path.join(folderPath, 'data')) } catch {}: unlink
\* removes a file and fails on a directory
unlinkData(written, old) ==
    IF old.legacy.kind = "dir" THEN [written EXCEPT !.legacy = old.legacy] ELSE written

\* ipcMain.handle('mods:setData') on the character directory d
modsSetData(d, modName, payload) ==
    LET written == [txt |-> stringifyData(payload), legacy |-> NoData]
        targets == findArchiveByExtname(d, modName)
    IN  IF isDirectoryIn(d, modName)
        THEN LET e == CHOOSE x \in Lookup(d, modName) : TRUE
             IN  {DataOut((d \ {e}) \cup {[e EXCEPT !.data = unlinkData(written, @)]},
                          "true", "none", Null, <<>>, FALSE)}
        ELSE IF targets = {}
        THEN {DataOut(d, "none", "Archive not found", Null, <<>>, FALSE)}
        ELSE {IF sevenCanUpdate(t) /\ entryOf(d, t).kind = "file"
              THEN DataOut((d \ {entryOf(d, t)})
                              \cup {[entryOf(d, t) EXCEPT !.data = written]},
                           "true", "none", Null, <<>>, TRUE)
              ELSE DataOut(d, "none", "7zip add exit", Null, <<>>, TRUE) : t \in targets}

\* ipcMain.handle('mods:getPreviewDataUrl') on the character directory d
modsGetPreviewDataUrl(d, modName) ==
    LET targets == findArchive(d, modName)
    IN  IF targets = {} THEN {DataOut(d, "null", "none", Null, <<>>, FALSE)}
        ELSE {DataOut(d, IF entryOf(d, t).kind = "file" /\ entryOf(d, t).image
                         THEN "dataUrl" ELSE "null",
                      "none", Null, <<>>, TRUE) : t \in targets}

\* img of mods:list: meta.image when that file exists, else the first of
\* preview.png, preview.jpg, cover.png, cover.jpg that exists
listImage(e) == e.kind = "dir" /\ e.image

\* step 1 of a task of refreshMods for the listed mod m: the preview comes
\* from mods:getPreviewDataUrl when the listing names no image
previewTask(d, m) ==
    IF m.flat \/ ~listImage(entryOf(d, m.folder))
    THEN modsGetPreviewDataUrl(d, m.folder)
    ELSE {DataOut(d, "dataUrl", "none", Null, <<>>, FALSE)}

\* the names left of a mod folder by the filter of data, data.txt and
\* preview.(png|jpg|jpeg|webp|gif)
filteredNames(e) == e.inner \cup (IF e.json.present THEN {MOD_JSON} ELSE {})

\* ipcMain.handle('mods:getPrimaryInternalName') on the character directory d
modsGetPrimaryInternalName(d, modName) ==
    LET targets == findArchiveByExtname(d, modName)
    IN  IF isDirectoryIn(d, modName)
        THEN LET e == CHOOSE x \in Lookup(d, modName) : TRUE
             IN  IF filteredNames(e) = {} THEN {DataOut(d, "null", "none", Null, <<>>, FALSE)}
                 ELSE {DataOut(d, "name", "none", Null, n, FALSE) : n \in filteredNames(e)}
        ELSE IF targets = {} THEN {DataOut(d, "null", "none", Null, <<>>, FALSE)}
        ELSE {LET n == IF entryOf(d, t).kind = "file"
                       THEN getPrimaryInternalNameFromArchive(
                               sevenList(t, listingOf(entryOf(d, t))))
                       ELSE <<>>
              IN  DataOut(d, IF n = <<>> THEN "null" ELSE "name", "none", Null, n, TRUE) :
                 t \in targets}

\* ipcMain.handle('mods:renamePrimaryInternal') on the character directory d,
\* with a name that is not blank
modsRenamePrimaryInternal(d, modName, newInternalName) ==
    LET targets == findArchiveByExtname(d, modName)
    IN  IF isDirectoryIn(d, modName)
        THEN LET e == CHOOSE x \in Lookup(d, modName) : TRUE
             IN  IF filteredNames(e) = {}
                 THEN {DataOut(d, "unchanged", "none", Null, <<>>, FALSE)}
                 ELSE {IF primary = newInternalName
                       THEN DataOut(d, "unchanged", "none", Null, <<>>, FALSE)
                       ELSE IF primary = MOD_JSON
                       THEN DataOut((d \ {e}) \cup
                                       {[e EXCEPT !.json = NoJson,
                                                  !.inner = @ \cup {newInternalName}]},
                                    "changed", "none", Null, <<>>, FALSE)
                       ELSE DataOut((d \ {e}) \cup
                                       {[e EXCEPT !.inner = (@ \ {primary})
                                                               \cup {newInternalName}]},
                                    "changed", "none", Null, <<>>, FALSE) :
                          primary \in filteredNames(e)}
        ELSE IF targets = {}
        THEN {DataOut(d, "none", "Archive not found", Null, <<>>, FALSE)}
        ELSE {LET current == IF entryOf(d, t).kind = "file"
                             THEN getPrimaryInternalNameFromArchive(
                                     sevenList(t, listingOf(entryOf(d, t))))
                             ELSE <<>>
              IN  IF current = <<>> \/ current = newInternalName
                  THEN DataOut(d, "unchanged", "none", Null, <<>>, TRUE)
                  ELSE IF sevenCanUpdate(t)
                  THEN DataOut((d \ {entryOf(d, t)})
                                  \cup {[entryOf(d, t) EXCEPT !.inner = {newInternalName}]},
                               "changed", "none", Null, <<>>, TRUE)
                  ELSE DataOut(d, "none", "7zip rn exit", Null, <<>>, TRUE) : t \in targets}

-----------------------------------------------------------------------------
(* The renderer (Principal): values, cache, refreshMods *)

MAX_CACHE == 5
UIChars == {"A", "B"}
Kinds == {"modImgSrcs", "modInternalNames", "modPageUrls"}

\* A value shown or cached: the call of refreshMods that produced it (by, 0
\* for no value) and the root path and contents it was read from.
NoVal == [by |-> 0, root |-> 0, ver |-> 0]
ReadBy(i) == [by |-> i, root |-> disk.root, ver |-> disk.ver]

\* the maps are keyed by m.dir + '::' + m.folder; a character has one mod here
NoMap == [c \in UIChars |-> NoVal]
NoMaps == [k \in Kinds |-> NoMap]
NoView == [mods |-> NoVal, maps |-> NoMaps]

\* cacheRef.current.get(charName): the index of the entry, 0 for none
cacheIndex(cache, charName) ==
    IF \E i \in 1..Len(cache) : cache[i].key = charName
    THEN CHOOSE i \in 1..Len(cache) : cache[i].key = charName
    ELSE 0

\* Map.set: an existing key keeps its place, a new key goes last
cacheSet(cache, entry) ==
    IF cacheIndex(cache, entry.key) = 0 THEN Append(cache, entry)
    ELSE [cache EXCEPT ![cacheIndex(cache, entry.key)] = entry]

\* Map.delete
cacheDelete(cache, charName) == SelectSeq(cache, LAMBDA e : e.key # charName)

\* the first entry, in iteration order, with the least ts
oldestKey(cache) ==
    LET i == CHOOSE i \in 1..Len(cache) :
                /\ \A j \in 1..Len(cache) : cache[i].ts <= cache[j].ts
                /\ \A j \in 1..(i - 1) : cache[j].ts > cache[i].ts
    IN  cache[i].key

\* writeCache without the eviction
writeCacheUnbounded(cache, charName, entry, t) ==
    cacheSet(cache, [key |-> charName, mods |-> entry.mods, maps |-> entry.maps, ts |-> t])

\* writeCache(charName, entry), Date.now() = t
writeCache(cache, charName, entry, t) ==
    LET c1 == cacheSet(cache, [key |-> charName, mods |-> entry.mods,
                               maps |-> entry.maps, ts |-> t])
    IN  IF Len(c1) > MAX_CACHE THEN cacheDelete(c1, oldestKey(c1)) ELSE c1

\* applyCache(charName), Date.now() = t: the cache with the entry touched
applyCacheTouch(cache, charName, t) ==
    IF cacheIndex(cache, charName) = 0 THEN cache
    ELSE [cache EXCEPT ![cacheIndex(cache, charName)].ts = t]

\* applyCache(charName): what is shown afterwards
applyCacheView(cache, v, charName) ==
    IF cacheIndex(cache, charName) = 0 THEN v
    ELSE [mods |-> cache[cacheIndex(cache, charName)].mods,
          maps |-> cache[cacheIndex(cache, charName)].maps]

\* the state before the window has loaded anything
RendererStart ==
    /\ disk = [root |-> 0, ver |-> 0, chars |-> UIChars]
    /\ selectedChar = ""
    /\ view = NoView
    /\ cacheRef = <<>>
    /\ latestLoadRef = 0
    /\ loads = <<>>

\* a call of refreshMods(characterFolder, loadId), loadId 0 for undefined:
\* where it stands (pc: the IPC call it awaits, or "done"), its list, its
\* local maps imgMap, namesMap, urlsMap, the maps of the render that made the
\* closure, what called it (how), and the calls that were running when it
\* started
newLoad(ls, characterFolder, loadId, v, how) ==
    [char |-> characterFolder,
     how |-> how,
     loadId |-> loadId,
     pc |-> "listMods",
     list |-> NoVal,
     local |-> [k \in Kinds |-> NoVal],
     captured |-> v.maps,
     during |-> {i \in 1..Len(ls) : ls[i].pc # "done"}]

\* the call has returned: its closure is gone
returned(l) == [l EXCEPT !.pc = "done", !.local = [k \in Kinds |-> NoVal], !.captured = NoMaps]

\* if (loadId && loadId !== latestLoadRef.current) return
superseded(l, latest) == l.loadId # 0 /\ l.loadId # latest

\* the stage of a task after stage k, "done" after the last
nextStage(k) ==
    IF k = "modImgSrcs" THEN "modInternalNames"
    ELSE IF k = "modInternalNames" THEN "modPageUrls"
    ELSE "done"

\* setModImgSrcs((prev) => (prev[key] ? prev : { ...prev, [key]: dataUrl }))
showIfAbsent(m, key, val) == IF m[key].by # 0 \/ val.by = 0 THEN m ELSE [m EXCEPT ![key] = val]

\* { ...modImgSrcs, ...imgMap }
mergeMaps(captured, local, key) ==
    [k \in Kinds |-> IF local[k].by # 0 THEN [captured[k] EXCEPT ![key] = local[k]]
                     ELSE captured[k]]

-----------------------------------------------------------------------------
(* Names and inputs of the model *)

nx == <<"x">>
ny == <<"y">>
nxy == <<"x", "y">>
na == <<"a">>
Foo == <<"F", "o", "o">>
Bar == <<"B", "a", "r">>

\* what a character directory can hold initially: flat archives, and mod
\* folders with or without an archive inside
ModPool ==
    {ModFile(n) : n \in {nx \o ZIP, DISABLED \o nx \o ZIP,
                         DISABLED \o nx \o SEVENZ, DISABLED \o nxy \o ZIP}}
    \cup {ModFolder(n, NoJson, {}) : n \in {nx, DISABLED \o nx}}
    \cup {ModFolder(ny, NoJson, {na \o ZIP})}

\* the sets of entries a directory can hold on the file system at hand: no two
\* names resolve to the same entry
Coexist(es) == \A e1, e2 \in es : Fold(e1.name) = Fold(e2.name) => e1 = e2

ModArgs(d) == {nx} \cup {m.folder : m \in modsList(d)}
ArchiveContents == {{na \o ZIP}}

NoPayload == [pageUrl |-> "undefined", imageUrl |-> "undefined"]
NoBefore == [op |-> "init", arg |-> <<>>, payload |-> NoPayload, err |-> "none"]

NoCall(r) == [op |-> "init", character |-> <<>>, arg |-> <<>>, arg2 |-> <<>>,
              ret |-> "none", err |-> "none", pre |-> r,
              changed |-> <<>>, skipped |-> <<>>,
              data |-> Null, name |-> <<>>, spawned |-> FALSE,
              payload |-> NoPayload, before |-> NoBefore, modsRoot |-> NotSet]

Call(op, character, arg, arg2, o) ==
    [op |-> op, character |-> character, arg |-> arg, arg2 |-> arg2,
     ret |-> o.ret, err |-> o.err, pre |-> root,
     changed |-> o.changed, skipped |-> o.skipped,
     data |-> Null, name |-> <<>>, spawned |-> FALSE,
     payload |-> NoPayload, before |-> NoBefore, modsRoot |-> settings.modsRoot]

-----------------------------------------------------------------------------
(* Spec: the mods of one character *)

Init ==
    /\ fsys \in {"posix", "win32"}
    /\ \E es \in SUBSET ModPool :
          /\ Cardinality(es) <= MaxMods
          /\ Coexist(es)
          /\ root = {RootDir(Foo, es)}
    /\ now = 1
    /\ calls = 0
    /\ last = NoCall(root)
    /\ settings = RootSet
    /\ RendererStart

\* the handler answered with outcome o
Answer(op, character, arg, arg2, o) ==
    /\ calls' = calls + 1
    /\ root' = o.root
    /\ last' = Call(op, character, arg, arg2, o)
    /\ UNCHANGED <<fsys, now>>
    /\ UNCHANGED <<settings, uiVars>>

Enable ==
    /\ calls < MaxCalls
    /\ \E m \in ModArgs(charEntries(root, Foo)) :
          \E o \in modsEnableH(root, Foo, m) : Answer("enable", Foo, m, <<>>, o)

Disable ==
    /\ calls < MaxCalls
    /\ \E m \in ModArgs(charEntries(root, Foo)) :
          \E o \in modsDisableH(root, Foo, m) : Answer("disable", Foo, m, <<>>, o)

EnableFlat ==
    /\ calls < MaxCalls
    /\ \E m \in ModArgs(charEntries(root, Foo)) :
          \E o \in modsEnableFlatH(root, Foo, m) : Answer("enableFlat", Foo, m, <<>>, o)

DisableFlat ==
    /\ calls < MaxCalls
    /\ \E m \in ModArgs(charEntries(root, Foo)) :
          \E o \in modsDisableFlatH(root, Foo, m) : Answer("disableFlat", Foo, m, <<>>, o)

ActivateExclusive ==
    /\ calls < MaxCalls
    /\ \E m \in ModArgs(charEntries(root, Foo)) :
          \E o \in modsActivateExclusiveH(root, Foo, m) :
             Answer("activateExclusive", Foo, m, <<>>, o)

AddFromArchive ==
    /\ calls < MaxCalls
    /\ Cardinality(charEntries(root, Foo)) < MaxEntries
    /\ \E m \in {nx}, en \in {"absent", "false"}, c \in ArchiveContents :
          \E o \in modsAddFromArchiveH(root, Foo, m, en, c) :
             Answer("addFromArchive", Foo, m, <<>>, o)

CopyArchiveToModFolder ==
    /\ calls < MaxCalls
    /\ Cardinality(charEntries(root, Foo)) < MaxEntries
    /\ \E c \in ArchiveContents :
          \E o \in modsCopyArchiveToModFolderH(root, Foo, nx, c) :
             Answer("copyArchiveToModFolder", Foo, nx, <<>>, o)

Delete ==
    /\ calls < MaxCalls
    /\ \E m \in ModArgs(charEntries(root, Foo)) :
          \E o \in modsDeleteH(root, Foo, m) : Answer("delete", Foo, m, <<>>, o)

Next ==
    \/ Enable
    \/ Disable
    \/ EnableFlat
    \/ DisableFlat
    \/ ActivateExclusive
    \/ AddFromArchive
    \/ CopyArchiveToModFolder
    \/ Delete

Spec == Init /\ [][Next]_vars

-----------------------------------------------------------------------------
(* SpecChars: the character directories of the mods root *)

nfoo == <<"f", "o", "o">>
nFOO == <<"F", "O", "O">>
\* " foo": a name that trimming changes
nspfoo == <<" ", "f", "o", "o">>

\* a character directory is empty or holds one flat mod
CharPool ==
    {RootDir(n, es) : n \in {Foo, Bar}, es \in {{}, {ModFile(nx \o ZIP)}}}
    \cup {RootDir(n, {ModFile(nx \o ZIP)}) : n \in {nfoo, DISABLED \o Foo}}
    \cup {RootDir(n, {}) : n \in {nspfoo, nFOO}}

\* the display names of the characters, as characters:list strips them
displayNames(r) == {stripDisabled(e.name) : e \in {x \in r : x.kind = "dir"}}

RenameFrom(r) == {Foo} \cup displayNames(r) \cup {e.name : e \in {x \in r : x.kind = "dir"}}
RenameTo == {nFOO, Bar}

\* Date.now() does not go back; the model follows it up to MaxNow
Clock == {t \in now..MaxNow : TRUE}

InitChars ==
    /\ fsys \in {"posix", "darwin", "win32"}
    /\ \E es \in SUBSET CharPool :
          /\ Cardinality(es) <= MaxChars
          /\ Coexist(es)
          /\ root = es
    /\ now = 1
    /\ calls = 0
    /\ last = NoCall(root)
    /\ settings = RootSet
    /\ RendererStart

AnswerAt(op, arg, arg2, o, t) ==
    /\ calls' = calls + 1
    /\ root' = o.root
    /\ now' = t
    /\ last' = Call(op, <<>>, arg, arg2, o)
    /\ UNCHANGED fsys
    /\ UNCHANGED <<settings, uiVars>>

CharactersAdd ==
    /\ calls < MaxCalls
    /\ Cardinality(root) <= MaxChars
    /\ AnswerAt("add", Bar, <<>>, charactersAdd(root, Bar), now)

CharactersRename ==
    /\ calls < MaxCalls
    /\ \E old \in RenameFrom(root), new \in RenameTo, t \in Clock :
          AnswerAt("rename", old, new, charactersRename(root, old, new, t), t)

CharactersNormalizeNames ==
    /\ calls < MaxCalls
    /\ \E t \in Clock :
          \E o \in charactersNormalizeNames(root, t) :
             AnswerAt("normalizeNames", <<>>, <<>>, o, t)

CharactersDelete ==
    /\ calls < MaxCalls
    /\ \E n \in displayNames(root) :
          AnswerAt("delete", n, <<>>, charactersDelete(root, n), now)

NextChars ==
    \/ CharactersAdd
    \/ CharactersRename
    \/ CharactersNormalizeNames
    \/ CharactersDelete

SpecChars == InitChars /\ [][NextChars]_vars

-----------------------------------------------------------------------------
(* SpecData: metadata, previews and internal names of the mods of one        *)
(* character                                                                 *)

nM == <<"M">>
nb == <<"b">>

JsonData(pageUrl, imageUrl) == [kind |-> "json", pageUrl |-> pageUrl, imageUrl |-> imageUrl]

\* what the character directory can hold initially: flat archives of the
\* three formats, with or without a folder and a preview inside, and mod
\* folders with and without data files and preview image
DataPool ==
    {[ModFile(nx \o ZIP) EXCEPT !.inner = {nM}, !.image = TRUE],
     ModFile(nx \o SEVENZ),
     ModFile(ny \o RAR),
     [ModFile(DISABLED \o nxy \o ZIP) EXCEPT !.data = [txt |-> JsonData("o", "undefined"),
                                                        legacy |-> NoData]],
     ModFolder(nx, NoJson, {}),
     [ModFolder(DISABLED \o nx, NoJson, {}) EXCEPT !.data = [txt |-> Garbage, legacy |-> DataDir],
                                                   !.image = TRUE],
     [ModFolder(ny, NoJson, {na \o ZIP, nb}) EXCEPT !.data = [txt |-> NoData,
                                                          legacy |-> JsonData("o", "")]]}

\* the payloads of mods:setData: each key absent, empty or a non-empty string
Payloads ==
    {[pageUrl |-> "u", imageUrl |-> "undefined"],
     [pageUrl |-> "u", imageUrl |-> "i"],
     [pageUrl |-> "", imageUrl |-> "i"],
     NoPayload}

\* the outcomes of a handler of this section on the character directory,
\* seen from the root
LiftData(r, character, outs) ==
    LET c == CHOOSE e \in Lookup(r, character) : TRUE
    IN  {[root |-> (r \ {c}) \cup {[c EXCEPT !.entries = o.d]},
          ret |-> o.ret, err |-> o.err, changed |-> <<>>, skipped |-> <<>>,
          data |-> o.data, name |-> o.name, spawned |-> o.spawned] : o \in outs}

CallData(op, character, arg, payload, o) ==
    [Call(op, character, arg, <<>>, o) EXCEPT
        !.data = o.data, !.name = o.name, !.spawned = o.spawned, !.payload = payload,
        !.before = [op |-> last.op, arg |-> last.arg, payload |-> last.payload,
                    err |-> last.err]]

InitData ==
    /\ fsys \in {"posix", "win32"}
    /\ \E es \in SUBSET DataPool :
          /\ Cardinality(es) <= MaxMods
          /\ Coexist(es)
          /\ root = {RootDir(Foo, es)}
    /\ now = 1
    /\ calls = 0
    /\ last = NoCall(root)
    /\ settings = RootSet
    /\ RendererStart

AnswerData(op, arg, payload, o) ==
    /\ calls' = calls + 1
    /\ root' = o.root
    /\ last' = CallData(op, Foo, arg, payload, o)
    /\ UNCHANGED <<fsys, now>>
    /\ UNCHANGED <<settings, uiVars>>

\* the mods the renderer lists for the character
Listed == modsList(charEntries(root, Foo))

GetData ==
    /\ calls < MaxCalls
    /\ \E m \in Listed :
          \E o \in LiftData(root, Foo, modsGetData(charEntries(root, Foo), m.folder)) :
             AnswerData("getData", m.folder, NoPayload, o)

SetData ==
    /\ calls < MaxCalls
    /\ \E m \in Listed, payload \in Payloads :
          \E o \in LiftData(root, Foo, modsSetData(charEntries(root, Foo), m.folder, payload)) :
             AnswerData("setData", m.folder, payload, o)

PreviewTask ==
    /\ calls < MaxCalls
    /\ \E m \in Listed :
          \E o \in LiftData(root, Foo, previewTask(charEntries(root, Foo), m)) :
             AnswerData("preview", m.folder, NoPayload, o)

GetPrimaryInternalName ==
    /\ calls < MaxCalls
    /\ \E m \in Listed :
          \E o \in LiftData(root, Foo,
                            modsGetPrimaryInternalName(charEntries(root, Foo), m.folder)) :
             AnswerData("getPrimaryInternalName", m.folder, NoPayload, o)

RenamePrimaryInternal ==
    /\ calls < MaxCalls
    /\ \E m \in Listed, newInternalName \in {nb, nM} :
          \E o \in LiftData(root, Foo,
                            modsRenamePrimaryInternal(charEntries(root, Foo), m.folder,
                                                      newInternalName)) :
             /\ calls' = calls + 1
             /\ root' = o.root
             /\ last' = [CallData("renamePrimaryInternal", Foo, m.folder, NoPayload, o)
                            EXCEPT !.arg2 = newInternalName]
             /\ UNCHANGED <<fsys, now>>
             /\ UNCHANGED <<settings, uiVars>>

NextData ==
    \/ GetData
    \/ SetData
    \/ PreviewTask
    \/ GetPrimaryInternalName
    \/ RenamePrimaryInternal

SpecData == InitData /\ [][NextData]_vars

-----------------------------------------------------------------------------
(* SpecArchive: getPrimaryInternalNameFromArchive over the listings of an    *)
(* archive (mods:peekPrimaryInternalName)                                    *)

MaxListing == 3    \* entries of the archive

\* the entries an archive can hold: data and preview files, other files whose
\* name starts with preview., folders with and without an entry of their own,
\* files below a folder, plain files, names with a colon
ListingPool ==
    {SltEntry(DATA_TXT, "-", "A"),
     SltEntry(PREVIEW_PNG, "-", "A"),
     SltEntry(PREVIEW_DOT \o <<"t", "x", "t">>, "-", "A"),
     SltEntry(nM, "+", "D"),
     SltEntry(nM \o SLASH \o <<"f">>, "-", "A"),
     SltEntry(<<"N">> \o BACKSLASH \o <<"g">>, "-", "absent"),
     SltEntry(<<"D", "a", "t", "a">>, "+", "D"),
     SltEntry(<<"r">>, "-", "A"),
     SltEntry(<<"a", ":", "b">>, "+", "D"),
     SltEntry(<<"t","o","S","t","r","i","n","g">>, "-", "A")}

\* the path of the archive as 7-Zip prints it in the first block
ArchivePath == IF fsys = "win32" THEN <<"C", ":">> \o BACKSLASH \o nx \o ZIP
               ELSE SLASH \o nx \o ZIP

Listings == UNION {[1..n -> ListingPool] : n \in 0..MaxListing}

InitArchive ==
    /\ fsys \in {"posix", "win32"}
    /\ root = {}
    /\ now = 1
    /\ calls = 0
    /\ \E entries \in Listings : last = [op |-> "init", entries |-> entries, name |-> <<>>]
    /\ settings = RootSet
    /\ RendererStart

\* ipcMain.handle('mods:peekPrimaryInternalName')
PeekPrimaryInternalName ==
    /\ calls = 0
    /\ calls' = 1
    /\ last' = [op |-> "peekPrimaryInternalName", entries |-> last.entries,
                name |-> getPrimaryInternalNameFromArchive(
                            sevenList(ArchivePath, last.entries))]
    /\ UNCHANGED <<fsys, root, now>>
    /\ UNCHANGED <<settings, uiVars>>

NextArchive == PeekPrimaryInternalName

SpecArchive == InitArchive /\ [][NextArchive]_vars

-----------------------------------------------------------------------------
(* The handlers as registered: every handler of characters:* and mods:*      *)
(* reads settings.modsRoot first and returns or throws when it is unset       *)

\* an outcome with every field of a call record
Full(o) ==
    [root |-> o.root, ret |-> o.ret, err |-> o.err,
     changed |-> o.changed, skipped |-> o.skipped,
     data |-> IF "data" \in DOMAIN o THEN o.data ELSE Null,
     name |-> IF "name" \in DOMAIN o THEN o.name ELSE <<>>,
     spawned |-> IF "spawned" \in DOMAIN o THEN o.spawned ELSE FALSE]

\* if (!modsRoot) return [] / null / false
returnsWhenUnset(r, v) == Full(ReturnR(r, v))
\* the guard left out: path.join(undefined, ...) throws a TypeError
throwsWhenUnsetLate(r) == Full(ThrowR(r, "ERR_INVALID_ARG_TYPE"))
\* if (!modsRoot) throw new Error('Mods root not set')
throwsWhenUnset(r) == Full(ThrowR(r, "Mods root not set"))

\* ipcMain.handle('characters:list') and ('characters:listWithImages') with
\* the root set: the display names of the directories, [] when there is none
\* or the root cannot be read
charactersList(r) ==
    ReturnR(r, IF \E e \in r : e.kind = "dir" THEN "list" ELSE "empty")
charactersListWithImages(r) ==
    ReturnR(r, IF \E e \in r : e.kind = "dir" /\ stripDisabled(e.name) \notin ObjectPrototypeKeys
               THEN "list" ELSE "empty")

\* entries.filter((n) => isDirectory(path.join(modsRoot, n)))
dirsOf(r) == {e.name : e \in {x \in r : x.kind = "dir"}}

\* the results characters:list can return, one for each order of readdir: the
\* first base of every lower-cased base is pushed,
\*   if (!seen.has(base.toLowerCase())) { seen.add(...); result.push(base) }
charactersListNames(r) ==
    LET bases == {stripDisabled(d) : d \in dirsOf(r)}
    IN  {res \in SUBSET bases :
            \A b \in bases :
               Cardinality({n \in res : toLowerCase(n) = toLowerCase(b)}) = 1}

\* the names characters:listWithImages returns: Object.keys(bestFolderByBase),
\* keyed by the base as written; bestFolderByBase[base] is truthy for a key
\* of Object.prototype, and such a base is never stored
charactersListWithImagesNames(r) ==
    {stripDisabled(d) : d \in dirsOf(r)} \ ObjectPrototypeKeys

\* j?.pageUrl of a data file
hasPageUrl(file) == file.kind = "json" /\ file.pageUrl \notin {"", "undefined"}

\* ipcMain.handle('mods:openPage') with the root set: the folder's data file,
\* then the data file of a matching archive, then mod.json (the mod.json
\* files of the model hold no pageUrl)
modsOpenPage(d, modName) ==
    LET targets == findArchiveByExtname(d, modName)
    IN  IF /\ isDirectoryIn(d, modName)
           /\ hasPageUrl(chosenData((CHOOSE e \in Lookup(d, modName) : TRUE).data))
        THEN {DataOut(d, "true", "none", Null, <<>>, FALSE)}
        ELSE IF targets = {} THEN {DataOut(d, "false", "none", Null, <<>>, FALSE)}
        ELSE {DataOut(d, IF hasPageUrl(chosenData(entryOf(d, t).data))
                         THEN "true" ELSE "false",
                      "none", Null, <<>>, TRUE) : t \in targets}

\* ipcMain.handle('mods:openFolder') with the root set
modsOpenFolder(d, modName) == {DataOut(d, "true", "none", Null, <<>>, FALSE)}

\* ipcMain.handle('mods:saveMetadata') with the root set
modsSaveMetadata(d, modName, metaEnabled) ==
    IF isDirectoryIn(d, modName)
    THEN {DataOut(writeModMeta(d, modName, metaEnabled), "meta", "none", Null, <<>>, FALSE)}
    ELSE {DataOut(d, "meta", "none", Null, <<>>, FALSE)}

\* ipcMain.handle('mods:saveImageFromDataUrl') with the root set and a
\* base64 data URL: preview.<ext> is written into the folder or added to the
\* archive
modsSaveImageFromDataUrl(d, modName) ==
    LET targets == findArchive(d, modName)
    IN  IF isDirectoryIn(d, modName)
        THEN LET e == CHOOSE x \in Lookup(d, modName) : TRUE
             IN  {DataOut((d \ {e}) \cup {[e EXCEPT !.image = TRUE]},
                          "preview", "none", Null, <<>>, FALSE)}
        ELSE IF targets = {}
        THEN {DataOut(d, "none", "Archive not found for mod", Null, <<>>, FALSE)}
        ELSE {IF sevenCanUpdate(t) /\ entryOf(d, t).kind = "file"
              THEN DataOut((d \ {entryOf(d, t)})
                              \cup {[entryOf(d, t) EXCEPT !.image = TRUE]},
                           "preview", "none", Null, <<>>, TRUE)
              ELSE DataOut(d, "none", "7zip add exit", Null, <<>>, TRUE) : t \in targets}

\* ipcMain.handle('mods:saveImageFromUrl') with the root set: the download
\* fails, or the image is stored as above
modsSaveImageFromUrl(d, modName) ==
    {DataOut(d, "none", "HTTP", Null, <<>>, FALSE)} \cup modsSaveImageFromDataUrl(d, modName)

\* ipcMain.handle('mods:updateFromUrl') with the root set: the mod.json
\* files of the model hold no updateUrl
modsUpdateFromUrl(d, modName) ==
    {DataOut(d, "none", "No updateUrl in mod.json", Null, <<>>, FALSE)}

\* the handlers by channel, for the character directory <root>/<character>
\* and the arguments at hand, with the root set
whenSet(channel, r, character, modName, arg2, payload, t) ==
    LET d == charEntries(r, character)
    IN  CASE channel = "characters:list" -> {charactersList(r)}
          [] channel = "characters:listWithImages" -> {charactersListWithImages(r)}
          [] channel = "characters:add" -> {charactersAdd(r, arg2)}
          [] channel = "characters:rename" -> {charactersRename(r, character, arg2, t)}
          [] channel = "characters:normalizeNames" -> charactersNormalizeNames(r, t)
          [] channel = "characters:delete" -> {charactersDelete(r, character)}
          [] channel = "mods:list" ->
                {ReturnR(r, IF modsListH(r, character) = {} THEN "empty" ELSE "list")}
          [] channel = "mods:activateExclusive" -> modsActivateExclusiveH(r, character, modName)
          [] channel = "mods:enable" -> modsEnableH(r, character, modName)
          [] channel = "mods:enableFlat" -> modsEnableFlatH(r, character, modName)
          [] channel = "mods:disable" -> modsDisableH(r, character, modName)
          [] channel = "mods:disableFlat" -> modsDisableFlatH(r, character, modName)
          [] channel = "mods:addFromArchive" ->
                modsAddFromArchiveH(r, character, modName, "absent", {na \o ZIP})
          [] channel = "mods:copyArchiveToModFolder" ->
                modsCopyArchiveToModFolderH(r, character, modName, {na \o ZIP})
          [] channel = "mods:delete" -> modsDeleteH(r, character, modName)
          [] channel = "mods:getData" -> LiftData(r, character, modsGetData(d, modName))
          [] channel = "mods:setData" -> LiftData(r, character, modsSetData(d, modName, payload))
          [] channel = "mods:getPreviewDataUrl" ->
                LiftData(r, character, modsGetPreviewDataUrl(d, modName))
          [] channel = "mods:getPrimaryInternalName" ->
                LiftData(r, character, modsGetPrimaryInternalName(d, modName))
          [] channel = "mods:renamePrimaryInternal" ->
                LiftData(r, character, modsRenamePrimaryInternal(d, modName, arg2))
          [] channel = "mods:openPage" -> LiftData(r, character, modsOpenPage(d, modName))
          [] channel = "mods:openFolder" -> LiftData(r, character, modsOpenFolder(d, modName))
          [] channel = "mods:saveMetadata" ->
                LiftData(r, character, modsSaveMetadata(d, modName, "false"))
          [] channel = "mods:saveImageFromDataUrl" ->
                LiftData(r, character, modsSaveImageFromDataUrl(d, modName))
          [] channel = "mods:saveImageFromUrl" ->
                LiftData(r, character, modsSaveImageFromUrl(d, modName))
          [] channel = "mods:updateFromUrl" ->
                LiftData(r, character, modsUpdateFromUrl(d, modName))

\* the channels whose handler returns when the root is unset, with what they
\* return
UnsetReturn ==
    [c \in {"characters:list", "characters:listWithImages", "mods:list",
            "mods:getData", "mods:getPrimaryInternalName", "mods:getPreviewDataUrl",
            "mods:openPage", "mods:openFolder"} |->
       CASE c \in {"characters:list", "characters:listWithImages", "mods:list"} -> "empty"
         [] c \in {"mods:openPage", "mods:openFolder"} -> "false"
         [] OTHER -> "null"]

\* the channels whose handler throws when the root is unset
UnsetThrow ==
    {"characters:add", "characters:rename", "characters:normalizeNames",
     "characters:delete", "mods:activateExclusive", "mods:enable", "mods:enableFlat",
     "mods:disable", "mods:disableFlat", "mods:addFromArchive",
     "mods:copyArchiveToModFolder", "mods:delete", "mods:setData",
     "mods:renamePrimaryInternal", "mods:saveMetadata", "mods:saveImageFromDataUrl",
     "mods:saveImageFromUrl", "mods:updateFromUrl"}

Channels == DOMAIN UnsetReturn \cup UnsetThrow

\* ipcMain.handle(channel): const { modsRoot } = await readSettings(), the
\* guard, then the handler
handle(channel, s, r, character, modName, arg2, payload, t) ==
    IF s.modsRoot = NotSet
    THEN IF channel \in DOMAIN UnsetReturn
         THEN {returnsWhenUnset(r, UnsetReturn[channel])}
         ELSE {throwsWhenUnset(r)}
    ELSE {Full(o) : o \in whenSet(channel, r, character, modName, arg2, payload, t)}

-----------------------------------------------------------------------------
(* SpecUnset: the handlers before and after the mods root is chosen *)

InitUnset ==
    /\ fsys \in {"posix", "win32"}
    /\ \E es \in SUBSET DataPool :
          /\ Cardinality(es) <= MaxMods
          /\ Coexist(es)
          /\ root = {RootDir(Foo, es)}
    /\ now = 1
    /\ calls = 0
    /\ last = NoCall(root)
    /\ settings = RootUnset
    /\ RendererStart

\* the record of a call, without the call before it
CallUnset(channel, character, modName, o) ==
    [CallData(channel, character, modName, NoPayload, o) EXCEPT !.before = NoBefore]

\* ipcMain.handle('settings:setModsRoot'): the directory is chosen
SetModsRoot ==
    /\ calls < MaxCalls
    /\ settings.modsRoot = NotSet
    /\ settings' = RootSet
    /\ calls' = calls + 1
    /\ last' = CallUnset("settings:setModsRoot", <<>>, RootSet.modsRoot,
                         Full(ReturnR(root, "settings")))
    /\ UNCHANGED <<fsys, root, now>>
    /\ UNCHANGED uiVars

\* a call on one of the channels; the handlers of mods:* that list the
\* character directory are called for a character that exists
Handle ==
    /\ calls < MaxCalls
    /\ \E channel \in Channels, modName \in {nx, ny}, arg2 \in {nb}, payload \in {NoPayload} :
          /\ settings.modsRoot = NotSet \/ isDirectoryIn(root, Foo)
          /\ \E o \in handle(channel, settings, root, Foo, modName, arg2, payload, now) :
                /\ calls' = calls + 1
                /\ root' = o.root
                /\ last' = CallUnset(channel, Foo, modName, o)
                /\ UNCHANGED <<fsys, now, settings>>
                /\ UNCHANGED uiVars

NextUnset ==
    \/ SetModsRoot
    \/ Handle

SpecUnset == InitUnset /\ [][NextUnset]_vars

-----------------------------------------------------------------------------
(* SpecList: characters:list and characters:listWithImages over the          *)
(* directories of the mods root                                               *)

nconstructor == <<"c","o","n","s","t","r","u","c","t","o","r">>

ListPool ==
    {RootDir(n, {}) : n \in {Foo, nfoo, DISABLED \o Foo, DISABLED \o nfoo, Bar,
                             DISABLED, nconstructor}}
    \cup {RootFile(nx)}

InitList ==
    /\ fsys \in {"posix", "darwin", "win32"}
    /\ \E es \in SUBSET ListPool :
          /\ Cardinality(es) <= MaxChars
          /\ Coexist(es)
          /\ root = es
    /\ now = 1
    /\ calls = 0
    /\ last = [op |-> "init", names |-> {}, pre |-> root]
    /\ settings = RootSet
    /\ RendererStart

AnswerList(op, names) ==
    /\ calls' = calls + 1
    /\ last' = [op |-> op, names |-> names, pre |-> root]
    /\ UNCHANGED <<fsys, root, now>>
    /\ UNCHANGED <<settings, uiVars>>

CharactersList ==
    /\ calls < MaxCalls
    /\ \E names \in charactersListNames(root) : AnswerList("characters:list", names)

CharactersListWithImages ==
    /\ calls < MaxCalls
    /\ AnswerList("characters:listWithImages", charactersListWithImagesNames(root))

NextList ==
    \/ CharactersList
    \/ CharactersListWithImages

SpecList == InitList /\ [][NextList]_vars

-----------------------------------------------------------------------------
(* fs:deleteFile over the files of a POSIX disk, each named by its absolute   *)
(* path.  In SpecDelete the variable root holds these paths.                  *)

\* p.split('/')
RECURSIVE splitSlash(_, _, _)
splitSlash(p, cur, acc) ==
    IF p = <<>> THEN Append(acc, cur)
    ELSE IF Head(p) = "/" THEN splitSlash(Tail(p), <<>>, Append(acc, cur))
    ELSE splitSlash(Tail(p), Append(cur, Head(p)), acc)

\* the segments of a path without "", "." and "..": ".." leaves the
\* directory reached so far, and stays at "/" when there is none
RECURSIVE normalizeSegs(_, _)
normalizeSegs(segs, acc) ==
    IF segs = <<>> THEN acc
    ELSE LET h == Head(segs)
         IN  normalizeSegs(Tail(segs),
                IF h \in {<<>>, <<".">>} THEN acc
                ELSE IF h = <<".", ".">>
                     THEN (IF acc = <<>> THEN acc ELSE SubSeq(acc, 1, Len(acc) - 1))
                     ELSE Append(acc, h))

RECURSIVE joinSlash(_)
joinSlash(segs) ==
    IF segs = <<>> THEN <<>> ELSE <<"/">> \o Head(segs) \o joinSlash(Tail(segs))

\* path.resolve(p) of an absolute POSIX path: normalized, no trailing slash
pathResolve(p) ==
    LET segs == normalizeSegs(splitSlash(p, <<>>, <<>>), <<>>)
    IN  IF segs = <<>> THEN <<"/">> ELSE joinSlash(segs)

\* fsp.unlink(p): removes a file; throws for a missing path and for a directory
unlinkable(files, p) == p \in files

\* ipcMain.handle('fs:deleteFile')
fsDeleteFile(files, s, absPath) ==
    IF absPath = <<>> THEN [root |-> files, ret |-> "false"]
    ELSE LET allowRoots == {s.modsRoot, s.imagesRoot} \ {NotSet}
             normalized == pathResolve(absPath)
             isAllowed == \E r \in allowRoots : startsWith(normalized, pathResolve(r))
         IN  IF ~isAllowed THEN [root |-> files, ret |-> "false"]
             ELSE IF unlinkable(files, normalized)
                  THEN [root |-> files \ {normalized}, ret |-> "true"]
                  ELSE [root |-> files, ret |-> "false"]

-----------------------------------------------------------------------------
(* SpecDelete: fs:deleteFile with the roots /m and /i *)

pM == <<"/", "m">>
pI == <<"/", "i">>

\* files inside the roots, beside them, and in a sibling directory whose name
\* starts with the name of a root
FilePool ==
    {pM \o <<"/", "a">>, pM \o <<"/", "b", "/", "c">>, pI \o <<"/", "a">>,
     <<"/", "m", "x", "/", "a">>, <<"/", "m", "a">>, <<"/", "x">>}

\* the paths the renderer can pass: the files as named, and other spellings
PathPool ==
    FilePool
    \cup {<<>>, pM, pM \o <<"/">>, pM \o <<"/", ".", "/", "a">>,
          pM \o <<"/", ".", ".", "/", "x">>,
          pM \o <<"/", "b", "/", ".", ".", "/", "a">>,
          pI \o <<"/", ".", ".", "/", "m", "x", "/", "a">>}

SettingsPool ==
    {[modsRoot |-> m, imagesRoot |-> i] : m \in {NotSet, pM, pM \o <<"/">>}, i \in {NotSet, pI}}

InitDelete ==
    /\ fsys = "posix"
    /\ root \in SUBSET FilePool
    /\ now = 1
    /\ calls = 0
    /\ last = [op |-> "init", arg |-> <<>>, ret |-> "none", pre |-> root]
    /\ settings \in SettingsPool
    /\ RendererStart

FsDeleteFile ==
    /\ calls < MaxCalls
    /\ \E absPath \in PathPool :
          LET o == fsDeleteFile(root, settings, absPath)
          IN  /\ root' = o.root
              /\ last' = [op |-> "fs:deleteFile", arg |-> absPath, ret |-> o.ret, pre |-> root]
    /\ calls' = calls + 1
    /\ UNCHANGED <<fsys, now>>
    /\ UNCHANGED <<settings, uiVars>>

NextDelete == FsDeleteFile

SpecDelete == InitDelete /\ [][NextDelete]_vars

-----------------------------------------------------------------------------
(* The renderer: selection, watch events, actions on mods, root changes *)

MaxEvents == 3     \* user and watch events in one run
MaxRoots == 1      \* changes of the mods root path in one run
MaxLoads == 2      \* calls of refreshMods that run at a time

\* the calls of refreshMods that have not returned
running(ls) == {i \in 1..Len(ls) : ls[i].pc # "done"}

MainIdle == UNCHANGED <<fsys, root, last, settings>>

InitUI ==
    /\ fsys = "posix"
    /\ root = {}
    /\ now = 1
    /\ calls = 0
    /\ last = NoCall(root)
    /\ settings = RootSet
    /\ RendererStart

\* useEffect([selectedChar, hasRoot]) after setSelectedChar(c)
SelectEffect(c, cache, ls) ==
    /\ selectedChar' = c
    /\ now' = now + 1
    /\ view' = IF cacheIndex(cache, c) # 0 THEN applyCacheView(cache, view, c) ELSE NoView
    /\ cacheRef' = applyCacheTouch(cache, c, now')
    /\ latestLoadRef' = now'
    /\ Cardinality(running(ls)) < MaxLoads
    /\ loads' = Append(ls, newLoad(ls, c, now', view, "select"))

\* a click on a character of the list
SelectChar ==
    /\ calls < MaxEvents
    /\ \E c \in UIChars : c # selectedChar /\ SelectEffect(c, cacheRef, loads)
    /\ calls' = calls + 1
    /\ UNCHANGED disk
    /\ MainIdle

\* refreshAll() with the cache as it is when it starts
RefreshAll(cache, how) ==
    LET purged == SelectSeq(cache, LAMBDA e : e.key \in disk.chars)
    IN  IF disk.chars = {}
        THEN /\ selectedChar' = ""
             /\ view' = [view EXCEPT !.mods = NoVal, !.maps["modImgSrcs"] = NoMap]
             /\ cacheRef' = purged
             /\ UNCHANGED <<now, latestLoadRef, loads>>
        ELSE \E cur \in disk.chars :
                /\ selectedChar \in disk.chars => cur = selectedChar
                /\ LET started == Append(loads, newLoad(loads, cur, 0, view, how))
                   IN  IF cur = selectedChar
                       THEN /\ Cardinality(running(loads)) < MaxLoads
                            /\ loads' = started
                            /\ cacheRef' = purged
                            /\ UNCHANGED <<selectedChar, view, now, latestLoadRef>>
                       ELSE SelectEffect(cur, purged, started)

\* the debounced handler of 'fs-changed'
FsChanged ==
    /\ calls < MaxEvents
    /\ RefreshAll(cacheRef, "watch")
    /\ calls' = calls + 1
    /\ UNCHANGED disk
    /\ MainIdle

\* the buttons of a mod (enable, disable) and the dialogs that add, edit and
\* delete a mod: the cache entry is dropped, the main process changes the
\* character directory, refreshMods(selectedChar) is called
ModAction ==
    /\ calls < MaxEvents
    /\ selectedChar # ""
    /\ Cardinality(running(loads)) < MaxLoads
    /\ cacheRef' = cacheDelete(cacheRef, selectedChar)
    /\ disk' = [disk EXCEPT !.ver = @ + 1]
    /\ loads' = Append(loads, newLoad(loads, selectedChar, 0, view, "action"))
    /\ calls' = calls + 1
    /\ UNCHANGED <<selectedChar, view, now, latestLoadRef>>
    /\ MainIdle

\* the mods root changes on disk behind the renderer's back: a mod changes,
\* or a character directory goes away
DiskChange ==
    /\ calls < MaxEvents
    /\ \/ disk' = [disk EXCEPT !.ver = @ + 1]
       \/ \E c \in disk.chars : disk' = [disk EXCEPT !.chars = @ \ {c}]
    /\ calls' = calls + 1
    /\ UNCHANGED <<selectedChar, view, cacheRef, now, latestLoadRef, loads>>
    /\ MainIdle

\* pickRoot(): settings:setModsRoot has answered
PickRoot ==
    /\ calls < MaxEvents
    /\ disk.root < MaxRoots
    /\ disk' = [root |-> disk.root + 1, ver |-> 0, chars |-> UIChars]
    /\ cacheRef' = <<>>
    /\ calls' = calls + 1
    /\ UNCHANGED <<selectedChar, view, now, latestLoadRef, loads>>
    /\ MainIdle

\* onSettingsChanged of Configuracion with another modsRoot
SettingsChanged ==
    /\ calls < MaxEvents
    /\ disk.root < MaxRoots
    /\ disk' = [root |-> disk.root + 1, ver |-> 0, chars |-> UIChars]
    /\ LET chars == UIChars
           cur == IF selectedChar \in chars THEN {selectedChar} ELSE chars
       IN  \E c \in cur :
              LET started == Append(loads, newLoad(loads, c, 0, view, "settings"))
              IN  IF c = selectedChar
                  THEN /\ Cardinality(running(loads)) < MaxLoads
                       /\ loads' = started
                       /\ cacheRef' = <<>>
                       /\ UNCHANGED <<selectedChar, view, now, latestLoadRef>>
                  ELSE SelectEffect(c, <<>>, started)
    /\ calls' = calls + 1
    /\ MainIdle

\* refreshMods: mods:list has answered
ListMods ==
    \E i \in 1..Len(loads) :
       LET l == loads[i]
           list == ReadBy(i)
       IN  /\ l.pc = "listMods"
           /\ IF superseded(l, latestLoadRef)
              THEN /\ loads' = [loads EXCEPT ![i] = returned(l)]
                   /\ UNCHANGED <<view, cacheRef>>
              ELSE IF l.char \in disk.chars
              THEN /\ loads' = [loads EXCEPT ![i].pc = "modImgSrcs", ![i].list = list]
                   /\ view' = [view EXCEPT !.mods = list]
                   /\ UNCHANGED cacheRef
              ELSE \* an empty list: no task, the cache is written at once
                   /\ loads' = [loads EXCEPT ![i] = returned(l)]
                   /\ view' = [view EXCEPT !.mods = list]
                   /\ cacheRef' = writeCache(cacheRef, l.char,
                                             [mods |-> list, maps |-> l.captured], now)
           /\ UNCHANGED <<disk, selectedChar, latestLoadRef, now, calls>>
           /\ MainIdle

\* refreshMods: the call a task awaited (preview, internal name, mod data) has
\* answered; after the last one the workers end and the cache is written
TaskStage ==
    \E i \in 1..Len(loads) :
       LET l == loads[i]
           k == l.pc
           val == IF l.char \in disk.chars THEN ReadBy(i) ELSE NoVal
           local == [l.local EXCEPT ![k] = val]
           shown == IF superseded(l, latestLoadRef) THEN view
                    ELSE [view EXCEPT !.maps[k] = showIfAbsent(@, l.char, val)]
       IN  /\ k \in Kinds
           /\ view' = shown
           /\ IF superseded(l, latestLoadRef)
              THEN /\ loads' = [loads EXCEPT ![i] = returned(l)]
                   /\ UNCHANGED cacheRef
              ELSE /\ loads' = IF nextStage(k) = "done"
                              THEN [loads EXCEPT ![i] = returned(l)]
                              ELSE [loads EXCEPT ![i].pc = nextStage(k), ![i].local = local]
                   /\ cacheRef' = IF nextStage(k) = "done"
                                  THEN writeCache(cacheRef, l.char,
                                                  [mods |-> l.list,
                                                   maps |-> mergeMaps(l.captured, local, l.char)],
                                                  now)
                                  ELSE cacheRef
           /\ UNCHANGED <<disk, selectedChar, latestLoadRef, now, calls>>
           /\ MainIdle

NextUI ==
    \/ SelectChar
    \/ FsChanged
    \/ ModAction
    \/ DiskChange
    \/ PickRoot
    \/ SettingsChanged
    \/ ListMods
    \/ TaskStage

SpecUI == InitUI /\ [][NextUI]_vars

-----------------------------------------------------------------------------
(* The renderer's cache alone: writeCache and applyCache over six characters *)

MaxCacheOps == 8   \* calls of writeCache and applyCache in one run

\* the characters, in the order in which a run first meets them
CacheChars == <<"A", "B", "C", "D", "E", "F">>

cacheKeys(cache) == {cache[i].key : i \in 1..Len(cache)}

\* the snapshot a refresh writes; what it holds plays no part in the eviction
Snapshot == [mods |-> NoVal, maps |-> NoMaps]

\* the characters a call can name: those met so far and the next new one
Nameable == {CacheChars[n] : n \in 1..(IF Len(cacheRef) < Len(CacheChars)
                                        THEN Len(cacheRef) + 1 ELSE Len(CacheChars))}

\* Date.now() at a call: the clock has not moved, or it has
Ticks == {now, now + 1}

\* the last call on the cache, the cache before it, and when each character
\* was last written or hit
CacheCall(op, c, t) ==
    [op |-> op, key |-> c, pre |-> cacheRef,
     access |-> IF op = "applyCache" /\ cacheIndex(cacheRef, c) = 0 THEN last.access
                ELSE [last.access EXCEPT ![c] = t]]

InitCache ==
    /\ fsys = "posix"
    /\ root = {}
    /\ now = 1
    /\ calls = 0
    /\ last = [op |-> "init", key |-> "", pre |-> <<>>,
               access |-> [n \in {CacheChars[i] : i \in 1..Len(CacheChars)} |-> 0]]
    /\ settings = RootSet
    /\ RendererStart

CacheIdle == UNCHANGED <<fsys, root, settings, disk, selectedChar, view, latestLoadRef, loads>>

WriteCache ==
    /\ calls < MaxCacheOps
    /\ \E c \in Nameable, t \in Ticks :
          /\ cacheRef' = writeCache(cacheRef, c, Snapshot, t)
          /\ now' = t
          /\ last' = CacheCall("writeCache", c, t)
    /\ calls' = calls + 1
    /\ CacheIdle

ApplyCache ==
    /\ calls < MaxCacheOps
    /\ \E c \in Nameable, t \in Ticks :
          /\ cacheRef' = applyCacheTouch(cacheRef, c, t)
          /\ now' = t
          /\ last' = CacheCall("applyCache", c, t)
    /\ calls' = calls + 1
    /\ CacheIdle

NextCache ==
    \/ WriteCache
    \/ ApplyCache

SpecCache == InitCache /\ [][NextCache]_vars

-----------------------------------------------------------------------------
(* SpecPool: the tasks of refreshMods under runLimited.  Every step is one    *)
(* turn of the renderer's event loop: a user event, or the answer to the IPC  *)
(* call a task awaits, followed by everything that runs until the next await. *)

CONCURRENCY == 4
MaxTasks == 5      \* mods of a character
MaxRefresh == 2    \* calls of refreshMods in one run

\* the awaits of a task: preview, internal name, mod data
Stages == 1..3

\* the workers of runLimited just created: Math.min(limit, fns.length) of
\* them, each one past cur = idx++ and inside its task up to the first await
\* (the call is not superseded when it starts)
runLimited(loadId, fns, limit) ==
    LET workers == IF limit < fns THEN limit ELSE fns
    IN  [loadId |-> loadId, fns |-> fns, idx |-> workers,
         awaiting |-> [s \in Stages |-> IF s = 1 THEN workers ELSE 0]]

\* the tasks of one call that are executing
executing(p) == p.awaiting[1] + p.awaiting[2] + p.awaiting[3]

\* the answer to the await of stage s of one task of call p arrives.  A
\* superseded task returns at its next guard and its worker runs through the
\* rest of the queue, whose tasks return at their first guard; otherwise the
\* task goes on to its next await, or ends and the worker takes the next task
answered(p, s, latest) ==
    LET left == [p.awaiting EXCEPT ![s] = @ - 1]
    IN  IF superseded(p, latest) THEN [p EXCEPT !.awaiting = left, !.idx = p.fns]
        ELSE IF s < 3 THEN [p EXCEPT !.awaiting = [left EXCEPT ![s + 1] = @ + 1]]
        ELSE IF p.idx < p.fns
        THEN [p EXCEPT !.awaiting = [left EXCEPT ![1] = @ + 1], !.idx = @ + 1]
        ELSE [p EXCEPT !.awaiting = left]

InitPool ==
    /\ fsys \in {"posix", "win32"}
    /\ root = {}
    /\ now = 1
    /\ calls = 0
    /\ last = NoCall(root)
    /\ settings = RootSet
    /\ disk = [root |-> 0, ver |-> 0, chars |-> UIChars]
    /\ selectedChar = ""
    /\ view = NoView
    /\ cacheRef = <<>>
    /\ latestLoadRef = 0
    /\ loads = <<>>

PoolIdle == UNCHANGED <<fsys, root, last, settings, disk, selectedChar, view, cacheRef>>

\* a character with n mods is selected: refreshMods(c, loadId) with
\* loadId = Date.now() + Math.random(), and its list has arrived
SelectPool ==
    /\ calls < MaxRefresh
    /\ \E n \in 1..MaxTasks :
          /\ now' = now + 1
          /\ calls' = calls + 1
          /\ latestLoadRef' = now'
          /\ loads' = Append(loads, runLimited(now', n, CONCURRENCY))
    /\ PoolIdle

\* a button or dialog of a mod, or a watch event: refreshMods(c) without a
\* loadId, and its list has arrived
ActionPool ==
    /\ calls < MaxRefresh
    /\ \E n \in 1..MaxTasks :
          /\ calls' = calls + 1
          /\ loads' = Append(loads, runLimited(0, n, CONCURRENCY))
    /\ UNCHANGED <<now, latestLoadRef>>
    /\ PoolIdle

\* the main process answers the call one task awaits
AnswerPool ==
    /\ \E i \in 1..Len(loads), s \in Stages :
          /\ loads[i].awaiting[s] > 0
          /\ loads' = [loads EXCEPT ![i] = answered(loads[i], s, latestLoadRef)]
    /\ UNCHANGED <<now, calls, latestLoadRef>>
    /\ PoolIdle

NextPool ==
    \/ SelectPool
    \/ ActionPool
    \/ AnswerPool

SpecPool == InitPool /\ [][NextPool]_vars

-----------------------------------------------------------------------------
(* SpecOrder: one call of refreshMods on a fixed disk, the answers to the     *)
(* calls of its tasks arriving in any order.  Here disk holds the list that   *)
(* mods:list returns, sorted, and the calls that answer with a value; the     *)
(* maps of the view are keyed by m.dir + '::' + m.folder.                     *)

\* no value: '' or null, and a key the map does not hold
NoAnswer == <<>>

\* an entry of the list: ListedFolder has meta.image, ListedFlat has none
ListedFolder(n) == [folder |-> n, dir |-> <<"/">> \o n, archive |-> <<>>, image |-> TRUE]
ListedFlat(n, a) == [folder |-> n, dir |-> <<>>, archive |-> a, image |-> FALSE]

\* the key of a task
taskKey(m) == m.dir \o <<":", ":">> \o m.folder

\* the IPC call a task awaits at stage s, by the archive of the mod
taskCallByArchive(m, s) ==
    IF s = 1 THEN (IF m.image THEN <<"readImageAsDataUrl", m.dir>>
                   ELSE <<"getModPreviewDataUrl", m.archive>>)
    ELSE IF s = 2 THEN <<"getPrimaryInternalName", m.archive>>
    ELSE <<"getModData", m.archive>>

\* the IPC call a task awaits at stage s: readImageAsDataUrl(abs) for a mod
\* with meta.image, else getModPreviewDataUrl(characterFolder, m.folder);
\* getPrimaryInternalName(characterFolder, m.folder); getModData(...)
taskCall(m, s) ==
    IF s = 1 THEN (IF m.image THEN <<"readImageAsDataUrl", m.dir>>
                   ELSE <<"getModPreviewDataUrl", m.folder>>)
    ELSE IF s = 2 THEN <<"getPrimaryInternalName", m.folder>>
    ELSE <<"getModData", m.folder>>

\* what the call answers on this disk: (... ) || ''
taskAnswer(d, m, s) == IF taskCall(m, s) \in d.answers THEN taskCall(m, s) ELSE NoAnswer

\* the map a stage fills
kindOf(s) == IF s = 1 THEN "modImgSrcs" ELSE IF s = 2 THEN "modInternalNames" ELSE "modPageUrls"

\* setModImgSrcs((prev) => (prev[key] ? prev : { ...prev, [key]: dataUrl }))
setIfAbsent(prev, key, val) ==
    IF prev[key] # NoAnswer \/ val = NoAnswer THEN prev ELSE [prev EXCEPT ![key] = val]

\* if (dataUrl) imgMap[key] = dataUrl
putLocal(map, key, val) == IF val = NoAnswer THEN map ELSE [map EXCEPT ![key] = val]

\* { ...modImgSrcs, ...imgMap }
spread(captured, local) ==
    [key \in DOMAIN captured |-> IF local[key] # NoAnswer THEN local[key] ELSE captured[key]]

OrderPool ==
    <<ListedFlat(nx, nx \o ZIP), ListedFlat(nx, DISABLED \o nx \o ZIP), ListedFolder(ny),
      ListedFlat(nxy, nxy \o ZIP), ListedFolder(na)>>

OrderKeys == {taskKey(OrderPool[i]) : i \in 1..Len(OrderPool)}
OrderCalls == {taskCall(OrderPool[i], s) : i \in 1..Len(OrderPool), s \in Stages}
                 \cup {taskCallByArchive(OrderPool[i], s) : i \in 1..Len(OrderPool), s \in Stages}

\* the lists mods:list can return: entries of the pool, in its order
RECURSIVE pick(_, _)
pick(seq, keep) ==
    IF seq = <<>> THEN <<>>
    ELSE (IF Len(seq) \in keep THEN pick(SubSeq(seq, 1, Len(seq) - 1), keep) \o <<seq[Len(seq)]>>
          ELSE pick(SubSeq(seq, 1, Len(seq) - 1), keep))
OrderLists ==
    {pick(OrderPool, keep) : keep \in {k \in SUBSET (1..Len(OrderPool)) : Cardinality(k) <= MaxTasks}}

\* the calls that answer with a value: all, none, the previews only, all but
\* the calls of one archive
OrderAnswers ==
    {OrderCalls, {}, {c \in OrderCalls : c[1] \in {"readImageAsDataUrl", "getModPreviewDataUrl"}},
     {c \in OrderCalls : c[2] # nx \o ZIP}}

\* the maps before the refresh: empty, or filled from the cache for one key
Cached == <<"c", "a", "c", "h", "e">>
OrderMaps ==
    {[k \in Kinds |-> [key \in OrderKeys |-> NoAnswer]],
     [k \in Kinds |-> [key \in OrderKeys |->
        IF key = taskKey(OrderPool[1]) /\ k # "modPageUrls" THEN <<Cached, k>> ELSE NoAnswer]]}

InitOrder ==
    /\ fsys = "posix"
    /\ root = {}
    /\ now = 1
    /\ calls = 0
    /\ settings = RootSet
    /\ disk \in [list : OrderLists, answers : OrderAnswers]
    /\ selectedChar = "A"
    /\ latestLoadRef \in {0, 1}
    /\ \E maps \in OrderMaps :
          \* a selection without a cache entry has cleared the maps; a mod
          \* button has deleted the cache entry and kept them
          /\ latestLoadRef = 1 => \A k \in Kinds, key \in OrderKeys : maps[k][key] = NoAnswer
          /\ view = [mods |-> <<>>, maps |-> maps]
    /\ last = [op |-> "init", pre |-> view]
    /\ cacheRef = <<>>
    /\ loads = <<>>

\* runLimited with one worker: the tasks run one after the other
startTasksSerial(n, limit) == [t \in 1..n |-> IF t = 1 THEN 1 ELSE 0]

\* the workers of runLimited: the first Math.min(limit, fns.length) tasks
\* are at their first await, stage 0 is a task not taken yet, 4 a task ended
startTasks(n, limit) ==
    [t \in 1..n |-> IF t <= (IF limit < n THEN limit ELSE n) THEN 1 ELSE 0]

\* the cache entry written when every worker has ended
finalEntry(p) ==
    [mods |-> p.list, maps |-> [k \in Kinds |-> spread(p.captured[k], p.local[k])]]

\* refreshMods(selectedChar, loadId): mods:list has answered, setMods(list),
\* the workers are started; with an empty list the cache is written at once
RefreshOrder ==
    /\ loads = <<>>
    /\ LET p == [loadId |-> latestLoadRef,
                 list |-> disk.list,
                 stage |-> startTasks(Len(disk.list), CONCURRENCY),
                 local |-> [k \in Kinds |-> [key \in OrderKeys |-> NoAnswer]],
                 captured |-> view.maps]
       IN  /\ loads' = <<p>>
           /\ view' = [view EXCEPT !.mods = disk.list]
           /\ cacheRef' = IF disk.list = <<>>
                          THEN writeCache(cacheRef, selectedChar, finalEntry(p), now)
                          ELSE cacheRef
    /\ calls' = 1
    /\ last' = [op |-> "refreshMods", pre |-> view]
    /\ UNCHANGED <<fsys, root, now, settings, disk, selectedChar, latestLoadRef>>

\* the stages after the answer to task t: the task goes on, or ends and its
\* worker takes the next task of the queue (cur = idx++)
afterAnswer(stage, t) ==
    LET s == stage[t]
        waiting == {u \in DOMAIN stage : stage[u] = 0}
    IN  IF s < 3 THEN [stage EXCEPT ![t] = s + 1]
        ELSE IF waiting = {} THEN [stage EXCEPT ![t] = 4]
        ELSE [stage EXCEPT ![t] = 4,
                           ![CHOOSE u \in waiting : \A w \in waiting : u <= w] = 1]

\* the call task t awaits has answered
AnswerTask(t) ==
    LET p == loads[1]
        s == p.stage[t]
        m == p.list[t]
        val == taskAnswer(disk, m, s)
        k == kindOf(s)
        q == [p EXCEPT !.stage = afterAnswer(p.stage, t),
                       !.local[k] = putLocal(@, taskKey(m), val)]
    IN  /\ s \in Stages
        /\ ~superseded(p, latestLoadRef)
        /\ loads' = <<q>>
        /\ view' = [view EXCEPT !.maps[k] = setIfAbsent(@, taskKey(m), val)]
        /\ cacheRef' = IF \A u \in DOMAIN q.stage : q.stage[u] = 4
                       THEN writeCache(cacheRef, selectedChar, finalEntry(q), now)
                       ELSE cacheRef
        /\ UNCHANGED <<fsys, root, now, calls, last, settings, disk, selectedChar, latestLoadRef>>

AnswerOrder ==
    /\ loads # <<>>
    /\ \E t \in 1..Len(loads[1].list) : AnswerTask(t)

NextOrder ==
    \/ RefreshOrder
    \/ AnswerOrder

SpecOrder == InitOrder /\ [][NextOrder]_vars

-----------------------------------------------------------------------------
(* SpecHung: one call of refreshMods while one call to the main process never *)
(* answers (a 7-Zip child that does not exit).  disk.hung names the task and   *)
(* the stage of that call; every other call is answered.                       *)

InitHung ==
    /\ fsys = "posix"
    /\ root = {}
    /\ now = 1
    /\ calls = 0
    /\ settings = RootSet
    /\ \E n \in 1..Len(OrderPool), t \in 1..Len(OrderPool), s \in Stages :
          /\ n <= MaxTasks
          /\ t <= n
          /\ disk = [list |-> SubSeq(OrderPool, 1, n), answers |-> OrderCalls, hung |-> <<t, s>>]
    /\ selectedChar = "A"
    /\ latestLoadRef \in {0, 1}
    /\ view = [mods |-> <<>>, maps |-> [k \in Kinds |-> [key \in OrderKeys |-> NoAnswer]]]
    /\ last = [op |-> "init", pre |-> view]
    /\ cacheRef = <<>>
    /\ loads = <<>>

\* the main process answers a call other than the hung one
AnswerHung ==
    /\ loads # <<>>
    /\ \E t \in 1..Len(loads[1].list) :
          /\ <<t, loads[1].stage[t]>> # disk.hung
          /\ AnswerTask(t)

NextHung ==
    \/ RefreshOrder
    \/ AnswerHung

\* mods:list answers, and so does every call that is not the hung one
SpecHung ==
    InitHung /\ [][NextHung]_vars /\ WF_vars(RefreshOrder) /\ WF_vars(AnswerHung)

-----------------------------------------------------------------------------
(* SpecSort: the list of refreshMods, as mods:list returns it and as sorted *)

\* the order of the characters under localeCompare with sensitivity 'base'
\* (root collation): white space, punctuation, digits, letters without case
Collation ==
    <<" ", "_", ":", ".", "(", ")", "/", "\\">> \o Digit \o LowerChars
rankOf(c) == CHOOSE i \in 1..Len(Collation) : Collation[i] = lowerOf[c]

\* a.localeCompare(b, undefined, { sensitivity: 'base' }): -1, 0 or 1
RECURSIVE localeCompare(_, _)
localeCompare(a, b) ==
    IF a = <<>> THEN (IF b = <<>> THEN 0 ELSE -1)
    ELSE IF b = <<>> THEN 1
    ELSE IF rankOf(Head(a)) < rankOf(Head(b)) THEN -1
    ELSE IF rankOf(Head(a)) > rankOf(Head(b)) THEN 1
    ELSE localeCompare(Tail(a), Tail(b))

\* the comparator of list.sort: enabled mods first, then by a.folder
sortCompare(a, b) ==
    LET ae == IF a.meta.enabled THEN 1 ELSE 0
        be == IF b.meta.enabled THEN 1 ELSE 0
    IN  IF ae # be THEN be - ae ELSE localeCompare(a.folder, b.folder)

\* Array.prototype.sort is stable: an element goes behind the elements that
\* do not compare greater
insertMod(sorted, m) ==
    LET k == Cardinality({i \in 1..Len(sorted) : sortCompare(sorted[i], m) <= 0})
    IN  SubSeq(sorted, 1, k) \o <<m>> \o SubSeq(sorted, k + 1, Len(sorted))
RECURSIVE sortMods(_)
sortMods(list) ==
    IF list = <<>> THEN <<>>
    ELSE insertMod(sortMods(SubSeq(list, 1, Len(list) - 1)), list[Len(list)])

\* the lists mods:list can return for a directory: the folders in the order
\* of readdir, then the flat archives in the order of readdir
modsListSeqs(d) ==
    {fo \o fl : fo \in Orders(modsListFolders(d)), fl \in Orders(modsListFlat(d))}

nm == <<"m">>
nB == <<"B">>
SortPool ==
    {ModFile(n) : n \in {na \o ZIP, DISABLED \o nm \o ZIP, DISABLED \o nB \o ZIP,
                         nx \o SEVENZ, nx \o <<" ", "(", "2", ")">> \o ZIP}}
    \cup {ModFolder(n, NoJson, {}) : n \in {DISABLED \o nx, ny, nB}}

InitSort ==
    /\ fsys \in {"posix", "win32"}
    /\ \E es \in SUBSET SortPool :
          /\ Cardinality(es) <= MaxEntries
          /\ Coexist(es)
          /\ root = {RootDir(Foo, es)}
    /\ now = 1
    /\ calls = 0
    /\ last = [op |-> "init", list |-> <<>>, mods |-> <<>>]
    /\ settings = RootSet
    /\ RendererStart

\* refreshMods: mods:list has answered, the list is sorted, setMods(list)
RefreshSort ==
    /\ calls = 0
    /\ calls' = 1
    /\ \E list \in modsListSeqs(charEntries(root, Foo)) :
          last' = [op |-> "refreshMods", list |-> list, mods |-> sortMods(list)]
    /\ UNCHANGED <<fsys, root, now>>
    /\ UNCHANGED <<settings, uiVars>>

NextSort == RefreshSort

SpecSort == InitSort /\ [][NextSort]_vars

-----------------------------------------------------------------------------
(* SpecFlatten: mods:copyArchiveToModFolder with the layout of the archive   *)
(* it extracts.  A layout is the set of the top-level entries of a folder,    *)
(* each with its children; a sub-folder moves with what it holds, so the      *)
(* children of a child are left out.                                          *)

TreeFile(n) == [name |-> n, kind |-> "file", children |-> {}]
TreeDir(n, ch) == [name |-> n, kind |-> "dir", children |-> ch]
Child(n, k) == [name |-> n, kind |-> k]

\* a child that fsp.rename has moved to the top of the mod folder
lifted(c) == [name |-> c.name, kind |-> c.kind, children |-> {}]

\* for (const name of innerItems) await fsp.rename(path.join(inner, name),
\* path.join(destDir, name)), then rmdir(inner): the children are moved in
\* the order of readdir; the rename of a child onto the path of inner itself
\* fails, which ends the loop with the children moved so far
liftChildren(inner) ==
    LET blocked == {c \in inner.children : Fold(c.name) = Fold(inner.name)}
    IN  IF blocked = {} THEN {{lifted(c) : c \in inner.children}}
        ELSE {{lifted(c) : c \in moved} \cup {[inner EXCEPT !.children = @ \ moved]} :
                 moved \in SUBSET (inner.children \ blocked)}

\* the step "Flatten single top-level folder" on the extracted layout
flattenSingle(ents) ==
    LET fileCount == Cardinality({e \in ents : e.kind = "file"})
        dirEntries == {e \in ents : e.kind = "dir"}
    IN  IF fileCount = 0 /\ Cardinality(dirEntries) = 1
        THEN liftChildren(CHOOSE e \in dirEntries : TRUE)
        ELSE {ents}

\* ipcMain.handle('mods:copyArchiveToModFolder') with the layout of the
\* archive: the name and the new folder as above, the layout of the folder
\* after the flatten step
modsCopyArchiveToModFolderTree(r, character, base, archive) ==
    UNION {{[o EXCEPT !.changed = IF o.err = "none" THEN tree ELSE {}] :
               o \in modsCopyArchiveToModFolderH(r, character, base, {e.name : e \in tree})} :
             tree \in flattenSingle(archive)}

nw == <<"w">>
nW == <<"W">>
nv == <<"v">>
nr == <<"r">>

ChildPool == {Child(na, "file"), Child(nb, "dir"), Child(nw, "file"), Child(nw, "dir"),
              Child(nW, "dir")}
Wrappers == {TreeDir(nw, ch) : ch \in {c \in SUBSET ChildPool : Cardinality(c) <= MaxEntries}}
\* the layouts of the archives: no wrapper or one, beside a file, a second
\* folder or nothing
Archives ==
    {t \in {ws \cup rest : ws \in {{}} \cup {{x} : x \in Wrappers},
                           rest \in SUBSET {TreeFile(nr), TreeDir(nv, {})}} :
        t # {} /\ \A e \in t : Coexist(e.children)}

InitFlatten ==
    /\ fsys \in {"posix", "win32"}
    /\ \E es \in SUBSET {ModFile(nx \o ZIP), ModFolder(nx, NoJson, {})} :
          root = {RootDir(Foo, es)}
    /\ now = 1
    /\ calls = 0
    /\ last = [op |-> "init", pre |-> root, err |-> "none", archive |-> {}, tree |-> {}]
    /\ settings = RootSet
    /\ RendererStart

CopyArchiveTree ==
    /\ calls = 0
    /\ calls' = 1
    /\ \E archive \in Archives :
          \E o \in modsCopyArchiveToModFolderTree(root, Foo, nx, archive) :
             /\ root' = o.root
             /\ last' = [op |-> "copyArchiveToModFolder", pre |-> root, err |-> o.err,
                         archive |-> archive, tree |-> o.changed]
    /\ UNCHANGED <<fsys, now>>
    /\ UNCHANGED <<settings, uiVars>>

NextFlatten == CopyArchiveTree

SpecFlatten == InitFlatten /\ [][NextFlatten]_vars

-----------------------------------------------------------------------------
(* SpecBatch: mods:activateExclusive over mod folders of which some cannot be *)
(* written (a folder of another user, a read-only volume): in SpecBatch the   *)
(* variable disk holds the names of these folders.  Every write into such a   *)
(* folder throws EACCES, reading it succeeds.                                 *)

\* one iteration of the outer loop on the folder e: in a folder that cannot
\* be written the first rename, or else the write of mod.json, throws and
\* the catch of the iteration ignores it
activateFolderAt(e, targetMod, denied) ==
    IF e.name \in denied THEN {e} ELSE activateFolder(e, targetMod)

\* the loop with an iteration that lets the exception through: the call
\* rejects
modsActivateExclusiveAbort(r, character, targetMod, denied) ==
    IF \E e \in charEntries(r, character) : e.kind = "dir" /\ e.name \in denied
    THEN {ThrowR(r, "EACCES")}
    ELSE modsActivateExclusiveH(r, character, targetMod)

\* ipcMain.handle('mods:activateExclusive') on the mods root r
modsActivateExclusiveAt(r, character, targetMod, denied) ==
    IF trim(character) = <<>> \/ trim(targetMod) = <<>>
    THEN {ThrowR(r, "Character and target mod are required")}
    ELSE IF ~isDirectoryIn(r, character) THEN {ThrowR(r, "ENOENT")}
    ELSE LET d == charEntries(r, character)
             dirs == {e \in d : e.kind = "dir"}
             after == UNION {activateFolderAt(e, targetMod, denied) : e \in dirs}
             picks == {f \in [dirs -> after] :
                         \A e \in dirs : f[e] \in activateFolderAt(e, targetMod, denied)}
         IN  Lift(r, character,
                  {Return((d \ dirs) \cup {f[e] : e \in dirs}, "true") : f \in picks})

nz == <<"z">>
BatchPool ==
    {ModFolder(nx, NoJson, {na \o ZIP}),
     ModFolder(ny, NoJson, {DISABLED \o na \o ZIP, nb \o ZIP}),
     ModFolder(nz, [present |-> TRUE, enabled |-> TRUE], {}),
     ModFolder(DISABLED \o nx, NoJson, {DISABLED \o na \o ZIP}),
     ModFile(nxy \o ZIP)}

InitBatch ==
    /\ fsys \in {"posix", "win32"}
    /\ \E es \in SUBSET BatchPool :
          /\ Cardinality(es) <= MaxEntries
          /\ root = {RootDir(Foo, es)}
          /\ \E denied \in SUBSET {e.name : e \in {x \in es : x.kind = "dir"}} :
                disk = denied
    /\ now = 1
    /\ calls = 0
    /\ last = NoCall(root)
    /\ settings = RootSet
    /\ selectedChar = ""
    /\ view = NoView
    /\ cacheRef = <<>>
    /\ latestLoadRef = 0
    /\ loads = <<>>

ActivateExclusiveAt ==
    /\ calls < MaxCalls
    /\ \E m \in ModArgs(charEntries(root, Foo)) :
          \E o \in modsActivateExclusiveAt(root, Foo, m, disk) :
             Answer("activateExclusive", Foo, m, <<>>, o)

NextBatch == ActivateExclusiveAt

SpecBatch == InitBatch /\ [][NextBatch]_vars

-----------------------------------------------------------------------------
(* SpecPrimary: the primary entry of a mod folder and of an archive with the  *)
(* same top-level entries, listed in the same order                            *)

Dirent(n, k) == [name |-> n, kind |-> k]

\* /^preview\.(png|jpe?g|webp|gif)$/i.test(n)
isPreviewFile(n) ==
    \E x \in {<<"p","n","g">>, <<"j","p","g">>, <<"j","p","e","g">>,
              <<"w","e","b","p">>, <<"g","i","f">>} :
       toLowerCase(n) = PREVIEW_DOT \o x

\* the folder branch of mods:getPrimaryInternalName on the entries readdir
\* returns, in its order (<<>> stands for null)
primaryOfFolder(ents) ==
    LET filtered == {i \in 1..Len(ents) :
                        /\ toLowerCase(ents[i].name) \notin {DATA, DATA_TXT}
                        /\ ~isPreviewFile(ents[i].name)}
        dirEnt == {i \in filtered : ents[i].kind = "dir"}
    IN  IF filtered = {} THEN <<>>
        ELSE IF dirEnt # {} THEN ents[CHOOSE i \in dirEnt : \A j \in dirEnt : i <= j].name
        ELSE ents[CHOOSE i \in filtered : \A j \in filtered : i <= j].name

\* the blocks 7z l -slt prints for an archive with these top-level entries
listingOfTop(ents) ==
    [i \in 1..Len(ents) |->
        IF ents[i].kind = "dir" THEN SltEntry(ents[i].name, "+", "D")
        ELSE SltEntry(ents[i].name, "-", "A")]

\* the top-level entries of a mod: folders, plain files, data and preview
\* files, a text file named preview.txt, mod.json, a file named toString
TopPool ==
    {Dirent(nM, "dir"), Dirent(<<"r">>, "file"), Dirent(na \o ZIP, "file"),
     Dirent(PREVIEW_PNG, "file"), Dirent(PREVIEW_DOT \o <<"t", "x", "t">>, "file"),
     Dirent(DATA_TXT, "file"), Dirent(<<"D", "a", "t", "a">>, "dir"),
     Dirent(MOD_JSON, "file"), Dirent(<<"t","o","S","t","r","i","n","g">>, "file")}

TopLists ==
    {q \in UNION {[1..n -> TopPool] : n \in 0..MaxListing} :
        \A i, j \in 1..Len(q) : q[i] = q[j] => i = j}

InitPrimary ==
    /\ fsys \in {"posix", "win32"}
    /\ root = {}
    /\ now = 1
    /\ calls = 0
    /\ \E ents \in TopLists :
          last = [op |-> "init", ents |-> ents, folder |-> <<>>, archive |-> <<>>]
    /\ settings = RootSet
    /\ RendererStart

\* mods:getPrimaryInternalName on the folder mod and on the archive
GetPrimaryBoth ==
    /\ calls = 0
    /\ calls' = 1
    /\ last' = [op |-> "getPrimaryInternalName", ents |-> last.ents,
                folder |-> primaryOfFolder(last.ents),
                archive |-> getPrimaryInternalNameFromArchive(
                               sevenList(ArchivePath, listingOfTop(last.ents)))]
    /\ UNCHANGED <<fsys, root, now>>
    /\ UNCHANGED <<settings, uiVars>>

NextPrimary == GetPrimaryBoth

SpecPrimary == InitPrimary /\ [][NextPrimary]_vars

-----------------------------------------------------------------------------
(* SpecSettings: settings:setModsRoot and settings:setImagesRoot as the main  *)
(* process runs them: a handler reads settings.json, sets its key in the      *)
(* record it read and writes the record back, and every await lets another    *)
(* handler run.  In SpecSettings the variable settings is the content of      *)
(* settings.json and loads holds the calls invoked so far.                    *)

SettingCall(op, arg) ==
    [op |-> op, arg |-> arg, pc |-> "invoked",
     s |-> [modsRoot |-> NotSet, imagesRoot |-> NotSet]]

\* const s = await readSettings()
readSettings(call, file) == [call EXCEPT !.pc = "read", !.s = file]

\* s.modsRoot = root (s.imagesRoot = root); await writeSettings(s): the
\* content of settings.json afterwards
writeSettings(call) ==
    IF call.op = "setModsRoot" THEN [call.s EXCEPT !.modsRoot = call.arg]
    ELSE [call.s EXCEPT !.imagesRoot = call.arg]

InitSettings ==
    /\ fsys \in {"posix", "win32"}
    /\ root = {}
    /\ now = 1
    /\ calls = 0
    /\ last = [op |-> "init", call |-> 0]
    /\ settings \in SettingsPool
    /\ disk = [root |-> 0, ver |-> 0, chars |-> UIChars]
    /\ selectedChar = ""
    /\ view = NoView
    /\ cacheRef = <<>>
    /\ latestLoadRef = 0
    /\ loads = <<>>

SettingsFrame == UNCHANGED <<fsys, root, now, disk, selectedChar, view, cacheRef, latestLoadRef>>

\* the renderer invokes settings:setModsRoot(root) or settings:setImagesRoot(root)
InvokeSetting ==
    /\ calls < MaxCalls
    /\ calls' = calls + 1
    /\ \E op \in {"setModsRoot", "setImagesRoot"}, arg \in {pM, pI} :
          loads' = Append(loads, SettingCall(op, arg))
    /\ last' = [op |-> "invoke", call |-> Len(loads) + 1]
    /\ UNCHANGED settings
    /\ SettingsFrame

\* the read of settings.json of a handler completes
ReadSettings ==
    /\ \E i \in 1..Len(loads) :
          /\ loads[i].pc = "invoked"
          /\ loads' = [loads EXCEPT ![i] = readSettings(loads[i], settings)]
          /\ last' = [op |-> "read", call |-> i]
    /\ UNCHANGED <<calls, settings>>
    /\ SettingsFrame

\* the write of settings.json of a handler completes and the handler returns
WriteSettings ==
    /\ \E i \in 1..Len(loads) :
          /\ loads[i].pc = "read"
          /\ settings' = writeSettings(loads[i])
          /\ loads' = [loads EXCEPT ![i].pc = "done"]
          /\ last' = [op |-> "write", call |-> i]
    /\ UNCHANGED calls
    /\ SettingsFrame

NextSettings ==
    \/ InvokeSetting
    \/ ReadSettings
    \/ WriteSettings

SpecSettings == InitSettings /\ [][NextSettings]_vars

-----------------------------------------------------------------------------
(* Claims about the mods of a character (Spec) *)

\* the character directory now, and before the last call
CharDir == charEntries(root, Foo)
PreDir == charEntries(last.pre, Foo)

\* the name on disk behind an entry of mods:list
backingName(m) == IF m.flat THEN m.archive ELSE m.folder

\* the names and kinds of the entries of a directory, whatever mod.json holds
Listing(d) == {<<e.name, e.kind>> : e \in d}

\* C1: after any sequence of calls, every entry of mods:list has meta.enabled
\* equal to "the backing folder or archive name does not start with DISABLED_
\* (case-insensitive)", whatever mod.json stores.
C1_EnabledDerivedFromName ==
    \A m \in modsListH(root, Foo) :
       m.meta.enabled = ~hasDisabledPrefix(backingName(m))

\* a call has run and some mod folder stores the opposite of what its name says
C1_Witness ==
    /\ calls > 0
    /\ \E e \in CharDir :
          /\ e.kind = "dir"
          /\ e.json.present
          /\ e.json.enabled = hasDisabledPrefix(e.name)
          /\ \E m \in modsListH(root, Foo) : m.folder = e.name

\* mods:list reports name as enabled (resp. disabled) and reports no entry of
\* that name in the other state
OnlyEnabled(d, name) ==
    /\ \E m \in modsList(d) : m.folder = name /\ m.meta.enabled
    /\ \A m \in modsList(d) : m.folder = name => m.meta.enabled
OnlyDisabled(d, name) ==
    /\ \E m \in modsList(d) : m.folder = name /\ ~m.meta.enabled
    /\ \A m \in modsList(d) : m.folder = name => ~m.meta.enabled

\* C2: enable of an already-enabled mod, and disable of an already-disabled
\* one, renames nothing and returns true, for folder mods and flat mods.
C2_Idempotent ==
    /\ (last.op = "enable" /\ OnlyEnabled(PreDir, last.arg))
          => (last.ret = "true" /\ Listing(CharDir) = Listing(PreDir))
    /\ (last.op = "disable" /\ OnlyDisabled(PreDir, last.arg))
          => (last.ret = "true" /\ Listing(CharDir) = Listing(PreDir))

\* the name a backing name toggles to
toggled(n) == IF hasDisabledPrefix(n) THEN stripDisabled(n) ELSE DISABLED \o n

\* the last call toggled the listed mod m of PreDir while the name it toggles
\* to was taken
ToggledOntoTaken(m) ==
    /\ last.arg = m.folder
    /\ \/ last.op = "disable" /\ m.meta.enabled
       \/ last.op = "enable" /\ ~m.meta.enabled
    /\ exists(PreDir, backingName(m))
    /\ exists(PreDir, toggled(backingName(m)))

\* C3: a toggle whose target name is taken does not fail and does not replace
\* the entry that holds the name: afterwards that entry and the toggled mod
\* are both there.
C3_CollisionKeepsBoth ==
    \A m \in modsList(PreDir) :
       ToggledOntoTaken(m)
          => /\ last.err = "none"
             /\ Listing(Lookup(PreDir, toggled(backingName(m)))) \subseteq Listing(CharDir)
             /\ backingName(m) \notin readdir(CharDir)
             /\ Cardinality(CharDir) = Cardinality(PreDir)

\* the other entries of d that carry the mod name of entry b (prefix and
\* archive extension stripped, letter case ignored)
sameModName(n1, n2) ==
    toLowerCase(stripArchiveExt(stripDisabled(n1))) = toLowerCase(stripArchiveExt(stripDisabled(n2)))
Namesakes(d, b) == {e \in d : e.name # b /\ sameModName(e.name, b)}

\* the last call disabled the listed, enabled mod m of PreDir, whose prefixed
\* name was free
DisabledFreely(m) ==
    /\ last.op = "disable"
    /\ last.arg = m.folder
    /\ m.meta.enabled
    /\ ~exists(PreDir, DISABLED \o backingName(m))
    /\ last.ret = "true"

\* every outcome of mods:enable from here gives the directory back as it was
EnableRestores(m) ==
    \A o \in modsEnableH(root, Foo, m.folder) :
       /\ o.ret = "true"
       /\ Listing(charEntries(o.root, Foo)) = Listing(PreDir)

C5_ExclusiveInList ==
    (/\ last.op = "activateExclusive"
     /\ last.err = "none"
     /\ \E m \in modsList(PreDir) : m.folder = last.arg)
       => \A m \in modsListH(root, Foo) : m.meta.enabled <=> (m.folder = last.arg)

-----------------------------------------------------------------------------
(* Claims about the character directories (SpecChars) *)

CharDirs(r) == {e \in r : e.kind = "dir"}

\* the directory characters:rename took as its source in the last call
RenameSource == CHOOSE e \in Lookup(last.pre, renameFrom(last.pre, last.arg)) : TRUE
RenameDest == renameTo(last.pre, last.arg, last.arg2)
RenameHadSource ==
    /\ last.op = "rename"
    /\ isDirectoryIn(last.pre, renameFrom(last.pre, last.arg))

\* C6: characters:rename to a name that differs by more than letter case and
\* is taken by a directory fails with 'Target already exists' and leaves both
\* directories as they were.
C6_TargetExists ==
    (/\ RenameHadSource
     /\ ~caseOnly(last.arg, last.arg2)
     /\ isDirectoryIn(last.pre, RenameDest)
     /\ Lookup(last.pre, RenameDest) # {RenameSource})
       => (last.err = "Target already exists" /\ root = last.pre)

\* C7: a case-only rename on a case-insensitive file system returns
\* changed:true, raises nothing, and ends with the one directory of the
\* character spelled as new and none under the temporary name.
C7_CaseOnlyRename ==
    (/\ RenameHadSource
     /\ CaseInsensitive
     /\ caseOnly(last.arg, last.arg2)
     /\ last.arg # last.arg2)
       => /\ last.ret = "changed"
          /\ last.err = "none"
          /\ root = (last.pre \ {RenameSource}) \cup {[RenameSource EXCEPT !.name = RenameDest]}

\* Foo was renamed to FOO where the two names resolve to the same entry
C7_Witness ==
    /\ RenameHadSource
    /\ CaseInsensitive
    /\ last.arg = Foo /\ last.arg2 = nFOO
    /\ last.ret = "changed"
    /\ \E e \in root : e.name = nFOO
    /\ \A e \in root : e.name # Foo

\* C8: renaming a character by its display name keeps the disable prefix: the
\* directory DISABLED_<old> becomes DISABLED_<new>, the directory <old>
\* becomes <new>.
C8_RenameKeepsPrefix ==
    (/\ RenameHadSource
     /\ last.ret = "changed"
     /\ ~hasDisabledPrefix(last.arg)
     /\ ~hasDisabledPrefix(last.arg2))
       => \E e \in root :
             /\ e.entries = RenameSource.entries
             /\ hasDisabledPrefix(e.name) = hasDisabledPrefix(RenameSource.name)
             /\ stripDisabled(e.name) = last.arg2

\* the disabled character Foo was renamed to FOO, by the case-only branch
C8_Witness ==
    /\ RenameHadSource
    /\ last.ret = "changed"
    /\ last.arg = Foo /\ last.arg2 = nFOO
    /\ hasDisabledPrefix(RenameSource.name)
    /\ \E e \in root : e.name = DISABLED \o nFOO

\* C9 as stated: after normalizeNames no two character directories have the
\* same canonicalized name.
C9_NoSharedCanonicalName ==
    last.op = "normalizeNames"
       => \A e1, e2 \in CharDirs(root) :
             normalize(e1.name) = normalize(e2.name) => e1 = e2

Range(q) == {q[i] : i \in 1..Len(q)}

\* where the directories reported as skipped are after the call: under their
\* own name, or under the temporary name when the second rename failed
SkippedNow == Range(last.skipped) \cup {tempName(n, now) : n \in Range(last.skipped)}

\* C9 as amended: two directories share their canonicalized name only if
\* normalizeNames reported one of them as skipped.
C9_SharedOnlyIfSkipped ==
    last.op = "normalizeNames"
       => \A e1, e2 \in CharDirs(root) :
             (normalize(e1.name) = normalize(e2.name) /\ e1 # e2)
                => (e1.name \in SkippedNow \/ e2.name \in SkippedNow)

\* several directories canonicalized to one name; one was renamed to it, one
\* was skipped
C9_Witness ==
    /\ last.op = "normalizeNames"
    /\ last.changed # <<>>
    /\ last.skipped # <<>>
    /\ \E e1, e2 \in CharDirs(last.pre) : e1 # e2 /\ normalize(e1.name) = normalize(e2.name)
    /\ \E e1, e2 \in CharDirs(root) : e1 # e2 /\ normalize(e1.name) = normalize(e2.name)

\* C10: every skipped name still exists with its original name, and every
\* changed pair has its from name absent and its to name present.
C10_ReportMatchesDisk ==
    last.op = "normalizeNames"
       => /\ \A n \in Range(last.skipped) : n \in readdir(root)
          /\ \A c \in Range(last.changed) :
                c[1] \notin readdir(root) /\ c[2] \in readdir(root)

\* the names characters:normalizeNames reported, as renamed or as skipped
Reported == Range(last.skipped) \cup {c[1] : c \in Range(last.changed)}

\* a directory of the listing that the loop no longer finds at its turn: the
\* rename of a reported name to its temporary name took its place
Replaced(e) == \E n \in Reported : e.name = tempName(n, now)

\* C11: with the mods root set and listed, characters:normalizeNames never
\* raises: it returns its report, and every directory whose name is not
\* canonical was processed, that is reported as changed or as skipped, or
\* passed over because it was no longer there when the loop reached it.
C11_NeverRaises ==
    last.op = "normalizeNames"
       => /\ last.err = "none"
          /\ last.ret = "report"
          /\ \A e \in CharDirs(last.pre) :
                normalize(e.name) # e.name => (e.name \in Reported \/ Replaced(e))

\* a rename failed half way (its temporary name is on disk), the name was
\* skipped, and another entry was still renamed
C11_Witness ==
    /\ last.op = "normalizeNames"
    /\ \E n \in Range(last.skipped) : tempName(n, now) \in readdir(root)
    /\ last.changed # <<>>
    /\ last.err = "none"

-----------------------------------------------------------------------------
(* Claims about the renderer (SpecUI) *)

\* the cache entry of a character, as a set: empty when there is none
CacheOf(c) == {cacheRef[n] : n \in {n \in 1..Len(cacheRef) : cacheRef[n].key = c}}

\* call i of refreshMods produced a value that is shown for character c
ShownFrom(i, c) ==
    \/ view.mods.by = i
    \/ \E k \in Kinds : view.maps[k][c].by = i

\* call i of refreshMods produced a value that the cache entry of c holds
CachedFrom(i, c) ==
    \E e \in CacheOf(c) : e.mods.by = i \/ \E k \in Kinds : e.maps[k][c].by = i

\* C12: when a refresh of a character is started while an earlier refresh of
\* the same character is running, then once both have returned neither what
\* is shown nor the cache entry of the character holds a value of the earlier.
C12_LastWriterWins ==
    \A j \in 1..Len(loads) :
       \A i \in loads[j].during :
          (loads[i].char = loads[j].char /\ loads[i].pc = "done" /\ loads[j].pc = "done")
             => (~ShownFrom(i, loads[j].char) /\ ~CachedFrom(i, loads[j].char))

\* the last call was writeCache of a character the full cache did not hold
SixthInserted ==
    /\ last.op = "writeCache"
    /\ Len(last.pre) = MAX_CACHE
    /\ last.key \notin cacheKeys(last.pre)

\* when the characters of the cache before the call were last accessed
AccessBefore(c) == last.pre[cacheIndex(last.pre, c)].ts

\* C13: writeCache of a 6th character into a cache of 5 removes exactly one
\* entry, one whose last access is the oldest, keeps the new entry, and
\* leaves 5 entries.
C13_EvictsLeastRecent ==
    SixthInserted
       => /\ Len(cacheRef) = MAX_CACHE
          /\ last.key \in cacheKeys(cacheRef)
          /\ \E gone \in cacheKeys(last.pre) :
                /\ cacheKeys(cacheRef) = (cacheKeys(last.pre) \ {gone}) \cup {last.key}
                /\ \A c \in cacheKeys(last.pre) :
                      /\ AccessBefore(c) = last.access[c]
                      /\ last.access[gone] <= last.access[c]

\* a 6th character was written into a cache whose entries were last accessed
\* at different times and not in the order of their insertion
C13_Witness ==
    /\ SixthInserted
    /\ \E i, j \in 1..Len(last.pre) : i < j /\ last.pre[i].ts > last.pre[j].ts
    /\ cacheRef[1].key = last.pre[1].key

\* the calls of refreshMods that had returned when call w started
ReturnedBefore(w) == (1..(w - 1)) \ loads[w].during

\* C14: once the handler of a watch event has run (refreshAll and the refresh
\* it awaits), the cache holds no snapshot written before the event, for any
\* character.
C14_WatchInvalidates ==
    \A w \in 1..Len(loads) :
       (loads[w].how = "watch" /\ loads[w].pc = "done")
          => \A n \in 1..Len(cacheRef) : cacheRef[n].mods.by \notin ReturnedBefore(w)

\* the values of a cache entry: its list and what its maps hold
EntryValues(e) == {e.mods} \cup {e.maps[k][c] : k \in Kinds, c \in UIChars}

\* C15: after the mods root path has changed, once every refresh in flight has
\* returned the cache holds no snapshot computed from the old root.
C15_NoOldRootInCache ==
    (disk.root > 0 /\ running(loads) = {})
       => \A n \in 1..Len(cacheRef) :
             \A v \in EntryValues(cacheRef[n]) : v.by # 0 => v.root = disk.root

-----------------------------------------------------------------------------
(* Claims about metadata, previews and internal names (SpecData) *)

\* a metadata value: each key is absent or a non-empty string
ValidPayload(v) == v.pageUrl # "" /\ v.imageUrl # ""

\* C16: mods:setData(character, mod, v) followed by mods:getData(character,
\* mod) returns exactly v, for every listed mod (folder or flat archive) and
\* every valid v, whatever else the character directory holds.
C16_RoundTrip ==
    (/\ last.op = "getData"
     /\ last.before.op = "setData"
     /\ last.before.arg = last.arg
     /\ ValidPayload(last.before.payload))
       => /\ last.before.err = "none"
          /\ last.data.kind = "data"
          /\ last.data.pageUrl = last.before.payload.pageUrl
          /\ last.data.imageUrl = last.before.payload.imageUrl

\* the mod of the last call is a directory of the character directory
OnFolderMod == isDirectoryIn(charEntries(last.pre, Foo), last.arg)

\* C17: no per-mod operation on a mod backed by a directory (getData,
\* setData, getPrimaryInternalName, renamePrimaryInternal, the preview lookup
\* of a refresh) spawns 7-Zip, whatever the folder holds and whatever
\* archives lie beside it.
C17_FolderNeverSpawns ==
    (last.op \in {"getData", "setData", "getPrimaryInternalName",
                  "renamePrimaryInternal", "preview"} /\ OnFolderMod)
       => ~last.spawned


-----------------------------------------------------------------------------
(* Claims about the listing of an archive (SpecArchive) *)

\* the top-level name of entry i of the archive
TopOf(i) == splitFirst(last.entries[i].path)

\* /^preview\.(png|jpe?g|webp|gif)$/i: the name of a preview image file
IsPreviewImage(n) ==
    toLowerCase(n) \in {PREVIEW_DOT \o x : x \in {<<"p","n","g">>, <<"j","p","g">>,
                                                  <<"j","p","e","g">>, <<"w","e","b","p">>,
                                                  <<"g","i","f">>}}

\* entry i has an eligible top-level name
Eligible(i) ==
    /\ TopOf(i) # <<>>
    /\ toLowerCase(TopOf(i)) \notin {DATA, DATA_TXT}
    /\ ~IsPreviewImage(TopOf(i))

\* the top-level name of entry i is a directory: flagged as folder, or with
\* children
IsDirectoryTop(i) ==
    \E k \in 1..Len(last.entries) :
       \/ last.entries[k].path = TopOf(i) /\ folderFlag(last.entries[k])
       \/ /\ TopOf(k) = TopOf(i)
          /\ last.entries[k].path # TopOf(i)

\* the first entry of a set of entries
FirstOf(S) == CHOOSE i \in S : \A j \in S : i <= j

\* what the claim says the function returns (<<>>: null)
ExpectedPrimary ==
    LET elig == {i \in 1..Len(last.entries) : Eligible(i)}
        dirs == {i \in elig : IsDirectoryTop(i)}
    IN  IF elig = {} THEN <<>>
        ELSE IF dirs # {} THEN TopOf(FirstOf(dirs))
        ELSE TopOf(FirstOf(elig))

\* C18: for any archive listing getPrimaryInternalNameFromArchive returns,
\* among the top-level names that are neither data/data.txt nor a preview
\* image file, the first-seen directory (flagged as folder or with children)
\* if there is one, else the first-seen eligible name, and null when there
\* is none.
C18_PrimaryName ==
    last.op = "peekPrimaryInternalName" => last.name = ExpectedPrimary


-----------------------------------------------------------------------------
(* Claims about the unset mods root (SpecUnset) *)

\* the read handlers the claim names
ReadChannels ==
    {"characters:list", "characters:listWithImages", "mods:list", "mods:getData",
     "mods:getPrimaryInternalName", "mods:getPreviewDataUrl", "mods:openPage",
     "mods:openFolder"}

\* the last call was handled with the mods root unset
CalledUnset == last.op \in Channels /\ last.modsRoot = NotSet

-----------------------------------------------------------------------------
(* Claims about the tasks of refreshMods (SpecPool) *)

RECURSIVE SumExecuting(_)
SumExecuting(ls) == IF ls = <<>> THEN 0 ELSE executing(Head(ls)) + SumExecuting(Tail(ls))

\* C20: at every moment at most 4 per-mod tasks are executing (awaiting a
\* file read or an archive-backend call), whatever the number of mods.
C20_AtMostFour == SumExecuting(loads) <= CONCURRENCY

-----------------------------------------------------------------------------
(* Claims about the list of characters (SpecList) *)

\* C21: characters:list and characters:listWithImages each return at most one
\* entry per display name, compared without case, and the names one returns
\* are the names the other returns for the same directories.
C21_OnePerDisplayName ==
    last.op \in {"characters:list", "characters:listWithImages"}
       => /\ \A n1, n2 \in last.names :
                toLowerCase(n1) = toLowerCase(n2) => n1 = n2
          /\ \A other \in charactersListNames(last.pre)
                          \cup {charactersListWithImagesNames(last.pre)} :
                {toLowerCase(n) : n \in other} = {toLowerCase(n) : n \in last.names}

-----------------------------------------------------------------------------
(* Claims about fs:deleteFile (SpecDelete) *)

\* the directories from "/" down to a path, ".." and "." followed
SegsOf(p) == normalizeSegs(splitSlash(p, <<>>, <<>>), <<>>)

\* path p lies in the directory tree of the directory r
InsideTree(p, r) ==
    /\ Len(SegsOf(p)) >= Len(SegsOf(r))
    /\ SubSeq(SegsOf(p), 1, Len(SegsOf(r))) = SegsOf(r)

InsideARoot(p) ==
    \E r \in {settings.modsRoot, settings.imagesRoot} \ {NotSet} : InsideTree(p, r)

\* C22: fs:deleteFile(p) deletes nothing but the file p names, and only when
\* p lies inside the tree of modsRoot or imagesRoot; for every other path it
\* returns false and the disk is as before.
C22_OnlyInsideRoots ==
    last.op = "fs:deleteFile"
       => /\ last.pre \ root \subseteq {f \in last.pre : SegsOf(f) = SegsOf(last.arg)}
          /\ root \subseteq last.pre
          /\ ~InsideARoot(last.arg) => (last.ret = "false" /\ root = last.pre)

-----------------------------------------------------------------------------
(* More claims about the renderer (SpecUI) *)

\* two values are the same when they were read from the same root path and
\* the same contents
SameValue(v, w) == v.root = w.root /\ v.ver = w.ver

\* call i of refreshMods ran alone, for the selected character, and is the
\* last call; it has returned and written the entry e of the cache
SettledAlone(i, e) ==
    /\ i = Len(loads)
    /\ running(loads) = {}
    /\ loads[i].during = {}
    /\ loads[i].char = selectedChar
    /\ e \in CacheOf(selectedChar)
    /\ e.mods.by = i

\* C23: after a refresh of the selected character has settled with no other
\* refresh in flight, every value it resolved from the current disk state is
\* the value shown: a value shown before does not survive a different one.
C23_ShowsResolved ==
    \A i \in 1..Len(loads) :
       \A e \in CacheOf(selectedChar) :
          SettledAlone(i, e)
             => \A k \in Kinds :
                   LET resolved == e.maps[k][selectedChar]
                   IN  (resolved.by = i /\ SameValue(resolved, disk))
                          => SameValue(view.maps[k][selectedChar], resolved)

\* C24: once every started refresh has settled, the mod list shown is a list
\* of the selected character.
C24_ListOfSelected ==
    (running(loads) = {} /\ selectedChar # "" /\ view.mods.by # 0)
       => loads[view.mods.by].char = selectedChar

-----------------------------------------------------------------------------
(* More claims about the mods of a character (Spec) *)

\* the entries of the character directory whose name and kind the last call
\* took away
Unnamed == Listing(PreDir) \ Listing(CharDir)

\* C25: mods:enable(character, m) and mods:disable(character, m) change the
\* backing name of at most one entry, an entry named m once the prefix and
\* the archive extension are stripped; no entry is deleted, and nothing
\* changes when no entry is named m.
C25_TouchesOnlyNamed ==
    last.op \in {"enable", "disable"}
       => /\ Cardinality(Unnamed) <= 1
          /\ \A g \in Unnamed : sameModName(g[1], last.arg)
          /\ Cardinality(CharDir) = Cardinality(PreDir)
          /\ (\A e \in PreDir : ~sameModName(e.name, last.arg))
                => Listing(CharDir) = Listing(PreDir)

\* the last call was the button of the listed mod m: mods:enable on a mod
\* reported as disabled, mods:disable on a mod reported as enabled, with the
\* entry's folder value
ButtonOn(m) ==
    /\ last.arg = m.folder
    /\ \/ last.op = "enable" /\ ~m.meta.enabled
       \/ last.op = "disable" /\ m.meta.enabled

\* mods:list now reports the mod m of PreDir in state en: an entry of its name
\* is in that state, and no entry with its backing name is in the other
ReportedAs(m, en) ==
    /\ \E m2 \in modsList(CharDir) :
          sameModName(m2.folder, m.folder) /\ m2.meta.enabled = en
    /\ \A m2 \in modsList(CharDir) :
          backingName(m2) = backingName(m) => m2.meta.enabled = en

\* C26: mods:enable with the folder value of an entry that mods:list reports
\* as disabled makes the next mods:list report that mod as enabled, and
\* mods:disable on an entry reported as enabled makes it reported as disabled.
C26_ButtonToggles ==
    \A m \in modsList(PreDir) :
       ButtonOn(m) => (last.err = "none" /\ ReportedAs(m, last.op = "enable"))

\* C27: mods:list never returns two entries with the same key
\* m.dir + '::' + m.folder.
C27_KeysDistinct ==
    \A m1, m2 \in modsListH(root, Foo) : modKey(m1) = modKey(m2) => m1 = m2

-----------------------------------------------------------------------------
(* Claims about the order of the tasks of a refresh (SpecOrder) *)

\* every task of the call of refreshMods has ended
Settled == loads # <<>> /\ \A u \in DOMAIN loads[1].stage : loads[1].stage[u] = 4

\* the stage that fills a map
stageOf(k) == CHOOSE s \in Stages : kindOf(s) = k

\* the value the disk gives for a key: the answer to a task of that key
ResolvedFor(k, key) ==
    LET ts == {t \in 1..Len(disk.list) :
                 /\ taskKey(disk.list[t]) = key
                 /\ taskAnswer(disk, disk.list[t], stageOf(k)) # NoAnswer}
    IN  IF ts = {} THEN NoAnswer
        ELSE taskAnswer(disk, disk.list[CHOOSE t \in ts : TRUE], stageOf(k))

\* what is shown and cached after the refresh, from the list, the answers of
\* the disk and the maps shown before
ExpectedView ==
    [mods |-> disk.list,
     maps |-> [k \in Kinds |-> [key \in OrderKeys |->
                 IF last.pre.maps[k][key] # NoAnswer THEN last.pre.maps[k][key]
                 ELSE ResolvedFor(k, key)]]]
ExpectedEntry ==
    [key |-> selectedChar,
     mods |-> disk.list,
     maps |-> [k \in Kinds |-> [key \in OrderKeys |->
                 IF ResolvedFor(k, key) # NoAnswer THEN ResolvedFor(k, key)
                 ELSE last.pre.maps[k][key]]],
     ts |-> now]

\* C28: within one refresh on a fixed disk, what is shown and the cache entry
\* after all tasks have settled do not depend on the order in which the tasks
\* complete: they are the values above, a function of the disk and of the
\* maps before the refresh.
C28_OrderIndependent ==
    Settled => (view = ExpectedView /\ cacheRef = <<ExpectedEntry>>)

\* five tasks on four workers have settled, two of them with the same key,
\* with values on disk and a value kept from before the refresh
C28_Witness ==
    /\ Settled
    /\ Len(disk.list) = 5
    /\ disk.answers = OrderCalls
    /\ view.maps["modImgSrcs"][taskKey(OrderPool[1])] = <<Cached, "modImgSrcs">>
    /\ view.maps["modPageUrls"][taskKey(OrderPool[1])] # NoAnswer

-----------------------------------------------------------------------------
(* Claims about a hung call (SpecHung) *)

\* the stages of the tasks, none before the call of refreshMods has started
StageOf(t) == IF loads = <<>> THEN 0 ELSE loads[1].stage[t]

\* every task but the hung one has ended, and the hung one holds its slot
OthersEnded ==
    /\ loads # <<>>
    /\ \A t \in 1..Len(disk.list) : t # disk.hung[1] => StageOf(t) = 4
    /\ <<disk.hung[1], StageOf(disk.hung[1])>> = disk.hung

\* a task is taken once: its stage only goes forward
TakenOnce ==
    \A t \in 1..Len(disk.list) :
       (loads # <<>> /\ loads' # <<>>) => loads'[1].stage[t] >= loads[1].stage[t]

\* C29: when the call of one task never returns, every other task of the
\* refresh is eventually taken and completed, each once; the hung task keeps
\* its slot and nothing else.
C29_OthersComplete ==
    /\ <>[]OthersEnded
    /\ [][TakenOnce]_vars

\* the first task hangs at its first call and the four tasks behind it have
\* ended: the fifth was taken by one of the three workers left
C29_Witness ==
    /\ OthersEnded
    /\ Len(disk.list) = 5
    /\ disk.hung = <<1, 1>>

-----------------------------------------------------------------------------
(* Claims about the order of the list (SpecSort) *)

\* the name of a listed mod: its folder value without the DISABLED_ prefix
ModNameOf(m) == stripDisabled(m.folder)

\* how often an entry occurs in a list
CountIn(list, m) == Cardinality({i \in 1..Len(list) : list[i] = m})

\* C30: refreshMods shows every enabled mod before every disabled mod and,
\* within each group, the mods in the order of their names, letter case
\* ignored; the list shown is a permutation of the list of mods:list.
C30_SortedByName ==
    last.op = "refreshMods"
       => /\ \A i, j \in 1..Len(last.mods) :
                i < j => /\ last.mods[j].meta.enabled => last.mods[i].meta.enabled
                         /\ last.mods[i].meta.enabled = last.mods[j].meta.enabled
                               => localeCompare(ModNameOf(last.mods[i]),
                                                ModNameOf(last.mods[j])) <= 0
          /\ Len(last.mods) = Len(last.list)
          /\ \A i \in 1..Len(last.list) :
                CountIn(last.mods, last.list[i]) = CountIn(last.list, last.list[i])

-----------------------------------------------------------------------------
(* More claims about metadata and internal names (SpecData) *)

\* the entries mods:setData can have written for the mod of the last call:
\* the mod folder, or an archive that carries its name
SetDataTargets ==
    LET d == charEntries(last.pre, Foo)
    IN  IF isDirectoryIn(d, last.arg)
        THEN {e.name : e \in {x \in Lookup(d, last.arg) : x.kind = "dir"}}
        ELSE findArchiveByExtname(d, last.arg)

\* the data files of entry n hold the record v and nothing under 'data'
HoldsExactly(n, v) ==
    LET e == entryOf(charEntries(root, Foo), n)
    IN  /\ e.data.txt = JsonData(v.pageUrl, v.imageUrl)
        /\ e.data.legacy.kind = "absent"

\* C31: mods:setData is a full replace: after it succeeds the stored record
\* has exactly the fields of the new value, and no entry named 'data'
\* remains beside 'data.txt', in the folder of a folder mod and inside the
\* archive of a flat mod.
C31_FullReplace ==
    (last.op = "setData" /\ last.ret = "true" /\ ValidPayload(last.payload))
       => \E n \in SetDataTargets : HoldsExactly(n, last.payload)

\* the reserved metadata file of the mod of the last call, as the handler
\* chooses it (data.txt before data): in the mod folder, or in an archive
\* that carries the mod's name
MetadataFiles ==
    LET d == charEntries(last.pre, Foo)
    IN  IF isDirectoryIn(d, last.arg)
        THEN {chosenData(e.data) : e \in {x \in Lookup(d, last.arg) : x.kind = "dir"}}
        ELSE {chosenData(entryOf(d, t).data) : t \in findArchiveByExtname(d, last.arg)}

\* the call returned a record with a URL field
ReturnedUrl ==
    /\ last.ret = "data"
    /\ last.data.kind = "data"
    /\ last.data.pageUrl # "undefined" \/ last.data.imageUrl # "undefined"

\* C32: mods:getData never raises; it returns null when the reserved
\* metadata file is absent, a record whose single URL field is the raw text
\* when the file holds text that is no JSON object, and null when the
\* content cannot be read at all.
C32_ToleratesLegacy ==
    last.op = "getData"
       => /\ last.err = "none"
          /\ (\A f \in MetadataFiles : f.kind = "absent") => last.ret = "null"
          /\ (MetadataFiles # {} /\ \A f \in MetadataFiles : f.kind = "garbage")
                => ReturnedUrl
          /\ (MetadataFiles # {} /\ \A f \in MetadataFiles : f.kind = "dir")
                => last.ret = "null"

-----------------------------------------------------------------------------
(* Claims about mods:copyArchiveToModFolder (Spec) *)

\* the names of the mods a character directory holds: a folder or an archive,
\* without the DISABLED_ prefix and the extension
ModNames(d) ==
    {stripDisabled(e.name) : e \in {x \in d : x.kind = "dir"}}
    \cup {stripArchiveExt(stripDisabled(e.name)) :
             e \in {x \in d : x.kind = "file" /\ hasArchiveExt(x.name)}}

\* candidate k of the name: the base name, then base (2), base (3), ...
Candidate(base, k) == IF k = 1 THEN base ELSE withSuffix(base, k)

\* C33: mods:copyArchiveToModFolder extracts into a freshly named directory:
\* the archive base name or the first of base (2), base (3), ... that no
\* existing mod of the character has, be it a folder or an archive, enabled
\* or with the DISABLED_ prefix; no existing entry is overwritten.
C33_FreshName ==
    (last.op = "copyArchiveToModFolder" /\ last.err = "none")
       => LET pre == charEntries(last.pre, Foo)
              post == charEntries(root, Foo)
          IN  /\ pre \subseteq post
              /\ \E k \in 1..MaxSuffix :
                    /\ readdir(post) \ readdir(pre) = {Candidate(last.arg, k)}
                    /\ Candidate(last.arg, k) \notin ModNames(pre)
                    /\ \A j \in 1..(k - 1) : Candidate(last.arg, j) \in ModNames(pre)

-----------------------------------------------------------------------------
(* Claims about the flatten step of mods:copyArchiveToModFolder (SpecFlatten) *)

\* the extraction produced exactly one top-level directory and no top-level
\* file
SingleWrapper(ents) ==
    /\ \A e \in ents : e.kind = "dir"
    /\ Cardinality(ents) = 1

\* C34: after mods:copyArchiveToModFolder, if the extraction produced exactly
\* one top-level directory and no top-level file, every child of that
\* directory is a direct child of the mod folder and the wrapper is gone,
\* whatever the children are called (also like the wrapper); otherwise the
\* extracted layout is unchanged.
C34_FlattensOneLevel ==
    (last.op = "copyArchiveToModFolder" /\ last.err = "none")
       => IF SingleWrapper(last.archive)
          THEN last.tree = {lifted(c) : c \in (CHOOSE e \in last.archive : TRUE).children}
          ELSE last.tree = last.archive

-----------------------------------------------------------------------------
(* Claims about the batch of mods:activateExclusive (SpecBatch) *)

\* the sibling folders of the last call, and those whose iteration failed
Siblings == {e \in charEntries(last.pre, Foo) : e.kind = "dir"}
FailedSiblings == {e \in Siblings : e.name \in disk}

\* the folder e was processed: its archives carry the prefix the target asks
\* for and mod.json holds the flag
Processed(e) ==
    \E x \in charEntries(root, Foo) : x \in activateFolder(e, last.arg) /\ x.json.present

\* C35: in mods:activateExclusive a failure while processing one sibling
\* does not abort the batch: every other sibling is still processed and the
\* call returns without raising.
C35_BatchGoesOn ==
    last.op = "activateExclusive"
       => /\ last.err = "none"
          /\ last.ret = "true"
          /\ \A e \in Siblings \ FailedSiblings : Processed(e)
          /\ FailedSiblings \subseteq charEntries(root, Foo)

\* a sibling failed, and another one had an archive renamed
C35_Witness ==
    /\ last.op = "activateExclusive"
    /\ FailedSiblings # {}
    /\ \E e \in Siblings \ FailedSiblings : Processed(e) /\ e \notin charEntries(root, Foo)
    /\ \E e \in Siblings \ FailedSiblings :
          \E x \in charEntries(root, Foo) : x.name = e.name /\ x.inner # e.inner

\* what the call returns when every sibling succeeds: the same call on the
\* same directory with every folder writable
FullSuccessValues ==
    {o.ret : o \in modsActivateExclusiveAt(last.pre, Foo, last.arg, {})}

\* C36: the result of a batch operation lets the caller tell partial success
\* from full success (normalizeNames lists what it could not rename in
\* skipped, activateExclusive reports which siblings failed): a run in which
\* some item failed never returns the value of a run in which every item
\* succeeded.  Stated here for mods:activateExclusive; the report of
\* characters:normalizeNames is C11.
C36_TellsPartialSuccess ==
    (last.op = "activateExclusive" /\ last.err = "none" /\ FailedSiblings # {})
       => last.ret \notin FullSuccessValues

-----------------------------------------------------------------------------
(* Claims about mods:renamePrimaryInternal (SpecData) *)

\* the mod of the last call, when it is a folder
RenamedFolder ==
    CHOOSE e \in Lookup(charEntries(last.pre, Foo), last.arg) : e.kind = "dir"

\* the primary entries the handler can compute for the mod of the last call
\* (<<>>: none)
ComputedPrimaries ==
    {o.name : o \in modsGetPrimaryInternalName(charEntries(last.pre, Foo), last.arg)}

\* nothing changed and the call returned { changed: false }
NothingChanged == last.err = "none" /\ last.ret = "unchanged" /\ root = last.pre

\* C37: mods:renamePrimaryInternal changes nothing and returns changed:false
\* when the computed primary entry already equals the new name; for a folder
\* mod whose destination name is taken by another entry it fails with
\* 'Target already exists' and leaves both entries unchanged.
C37_RenameGuards ==
    last.op = "renamePrimaryInternal"
       => /\ ComputedPrimaries = {last.arg2} => NothingChanged
          /\ (OnFolderMod /\ last.arg2 \in filteredNames(RenamedFolder))
                => \/ NothingChanged
                   \/ last.err = "Target already exists" /\ root = last.pre

-----------------------------------------------------------------------------
(* More claims about the character directories (SpecChars) *)

\* canonical: trimmed, first letter upper-case, the rest lower-case
Canonical(n) == normalize(n) = n

\* the directory that e is after the call: under its name in another case,
\* or under its temporary name
SameCharacter(e, x) ==
    \/ toLowerCase(trim(x.name)) = toLowerCase(trim(e.name))
    \/ x.name = tempName(e.name, now)

\* C38: after characters:normalizeNames every character that is not in
\* skipped has a canonical display name, the directory name without the
\* DISABLED_ prefix, trimmed, first letter upper-case and the rest
\* lower-case; a character that was disabled before is still disabled.
C38_DisplayNamesCanonical ==
    last.op = "normalizeNames"
       => /\ \A e \in CharDirs(root) :
                e.name \notin SkippedNow => Canonical(stripDisabled(e.name))
          /\ \A e \in CharDirs(last.pre) :
                hasDisabledPrefix(e.name)
                   => \E x \in CharDirs(root) :
                         SameCharacter(e, x) /\ hasDisabledPrefix(x.name)

-----------------------------------------------------------------------------
(* Claims about the primary entry of a folder and of an archive (SpecPrimary) *)

\* C39: for a set of top-level entries the primary entry computed for a
\* folder mod (mods:getPrimaryInternalName on a directory) equals the one
\* computed for an archive with the same top-level entries
\* (getPrimaryInternalNameFromArchive): both exclude the same reserved names
\* and apply the same directory-first, first-seen rule.
C39_SamePrimary ==
    last.op = "getPrimaryInternalName" => last.folder = last.archive

-----------------------------------------------------------------------------
(* Claims about the settings file (SpecSettings) *)

\* call i is op(arg) and has completed
CompletedAs(i, op, arg) ==
    loads[i].op = op /\ loads[i].arg = arg /\ loads[i].pc = "done"

\* C40: settings updates are not lost under interleaving: after
\* settings:setModsRoot(a) and settings:setImagesRoot(b) have both
\* completed, in any interleaving of their read and write steps, the
\* persisted settings contain modsRoot = a and imagesRoot = b.
C40_NoLostUpdate ==
    \A a, b \in {pM, pI} :
       (/\ Len(loads) = 2
        /\ \E i, j \in 1..Len(loads) :
              CompletedAs(i, "setModsRoot", a) /\ CompletedAs(j, "setImagesRoot", b))
          => settings.modsRoot = a /\ settings.imagesRoot = b

====
